---------------------------- MODULE Spec2Model ----------------------------
(***************************************************************************)
(* The adaptive request executor of src/request-optimizer.js               *)
(* (RequestOptimizer): deduplicated requests, the retry loop of            *)
(* _executeRequest, the persisted offline queue and its drain pass.        *)
(*                                                                         *)
(* Granularity.  JavaScript runs one task at a time.  A step of the model  *)
(* is either a task of the event loop (a platform event, a fetch that      *)
(* settles, a timer that fires, a page reload), or a synchronous call of   *)
(* request() by application code, or one promise continuation (a           *)
(* microtask).  Tasks wait until every pending continuation has run;       *)
(* request() may be called at any point, also between two continuations.   *)
(***************************************************************************)
EXTENDS Integers, Sequences, FiniteSets, TLC

(***************************************************************************)
(* Bounds of the model.                                                    *)
(***************************************************************************)
MaxCalls == 2
MaxPasses == 2
MaxReloads == 1
MaxRetriesGiven == 5
MaxTasks == 4
MaxLoads == 4
MaxFetches == 3
MaxTicks == 1
TickMs == 300001
MaxProbes == 2
MaxChecks == 2
MaxSamples == 12
MaxPreloads == 2

(***************************************************************************)
(* RequestOptimizer.config                                                 *)
(***************************************************************************)
INITIAL_TIMEOUT == 15000
MAX_TIMEOUT == 45000
MAX_RETRIES == 3
RETRY_DELAY == 1000
MAX_RETRY_DELAY == 10000
CONCURRENT_REQUESTS == 2

(***************************************************************************)
(* ConnectionMonitor.config                                                *)
(***************************************************************************)
HISTORY_SIZE == 10
LATENCY_EXCELLENT == 100
LATENCY_GOOD == 300
LATENCY_FAIR == 800
LATENCY_POOR == 2000

(***************************************************************************)
(* DataCache.get: the expiry used when expiryMs is absent or 0.            *)
(***************************************************************************)
DEFAULT_EXPIRY == 300000

Calls == 1..MaxCalls
PassIds == 1..MaxPasses
TaskIds == 1..MaxTasks
ExecIds ==
    ({"call"} \X Calls) \cup ({"pass"} \X PassIds) \cup ({"task"} \X TaskIds)

(***************************************************************************)
(* The inputs of request(url, options).  method "" and body "" stand for   *)
(* an absent property; hasMaxRetries tells whether options.maxRetries is   *)
(* given.                                                                  *)
(***************************************************************************)
Urls == {"u"}

OptionsSet ==
    { [method |-> "", body |-> "", hasMaxRetries |-> FALSE, maxRetries |-> 0],
      [method |-> "", body |-> "", hasMaxRetries |-> TRUE, maxRetries |-> 0],
      [method |-> "", body |-> "", hasMaxRetries |-> TRUE, maxRetries |-> 1],
      [method |-> "POST", body |-> "b", hasMaxRetries |-> TRUE, maxRetries |-> 1] }

NoOptions == [method |-> "", body |-> "", hasMaxRetries |-> FALSE, maxRetries |-> 0]

(***************************************************************************)
(* What fetch() can do: answer with a status, or throw (TypeError for a    *)
(* network failure, AbortError when the controller aborts on timeout).     *)
(***************************************************************************)
RawOutcomes ==
    { [kind |-> "response", status |-> s, name |-> ""] : s \in {200, 400, 401, 500} }
    \cup { [kind |-> "throw", status |-> 0, name |-> n] : n \in {"TypeError", "AbortError"} }

NoError == [name |-> "", status |-> 0, message |-> ""]
AllRetriesFailed == [name |-> "Error", status |-> 0, message |-> "Request failed after all retries"]
NoResult == [source |-> "none", success |-> FALSE, offline |-> FALSE, queued |-> FALSE]
ResponseBody == [source |-> "network", success |-> FALSE, offline |-> FALSE, queued |-> FALSE]

VARIABLES
    isOnline,          \* state.isOnline
    offlineQueue,      \* state.offlineQueue
    storedQueue,       \* localStorage[OFFLINE_QUEUE_KEY], parsed
    storageOk,         \* whether localStorage.setItem succeeds
    inflightRequests,  \* state.inflightRequests: request id -> execution
    execs,             \* the running instances of _executeRequest
    calls,             \* the calls of request() and what each caller got
    passes,            \* the runs of processOfflineQueue
    nextEntryId,       \* source of fresh queue entry ids
    reloads,           \* page reloads so far
    acked,             \* history: writes acknowledged as accepted-deferred
    delivered,         \* history: writes the server answered with 2xx
    queue,             \* state.queue: the waiting requests of processQueue
    activeRequests,    \* state.activeRequests
    tasks,             \* the requests handed to state.queue and their fate
    store,             \* localStorage: the entries under the cache keys
    inflight,          \* DataCache._inflight: url -> promise of the fetch
    fetches,           \* the promises fetch(url).then(r => r.json())
    loads,             \* the calls of fetchWithCache and _preloadFetch
    microtasks,        \* continuations queued by settled promises, in order
    now,               \* Date.now()
    api,               \* the last direct call of set, get, remove or clearAll
    onLine,            \* navigator.onLine
    monitor,           \* ConnectionMonitor.state
    connectionQuality, \* RequestOptimizer.state.connectionQuality
    conditions,        \* history: what each tier was derived from
    probes,            \* the probe fetches of the two quality checks
    checks,            \* history: the quality checks started so far
    asked              \* the last query of the adaptive timeouts

queueVars == <<queue, activeRequests, tasks>>

cacheVars == <<store, inflight, fetches, loads, microtasks, now, api>>

qualityVars == <<monitor, connectionQuality, conditions, probes, checks, asked>>

monitorVars == <<onLine, monitor, connectionQuality, conditions, probes,
                 checks, asked>>

execVars == <<isOnline, offlineQueue, storedQueue, storageOk, inflightRequests,
              execs, calls, passes, nextEntryId, reloads, acked, delivered,
              queue, activeRequests, tasks>>

vars == <<isOnline, offlineQueue, storedQueue, storageOk, inflightRequests,
          execs, calls, passes, nextEntryId, reloads, acked, delivered,
          queue, activeRequests, tasks,
          store, inflight, fetches, loads, microtasks, now, api,
          onLine, monitor, connectionQuality, conditions, probes, checks, asked>>

(***************************************************************************)
(* generateRequestId: method (GET when absent), url and the serialized     *)
(* body (empty when absent), joined by colons.                             *)
(***************************************************************************)
JSONstringify(s) == "\"" \o s \o "\""

generateRequestId(url, options) ==
    LET method == IF options.method = "" THEN "GET" ELSE options.method
        body == IF options.body # "" THEN JSONstringify(options.body) ELSE ""
    IN  method \o ":" \o url \o ":" \o body

(***************************************************************************)
(* const maxRetries = options.maxRetries || this.config.MAX_RETRIES        *)
(***************************************************************************)
maxRetriesOf(options) ==
    IF options.hasMaxRetries /\ options.maxRetries # 0
    THEN options.maxRetries
    ELSE MAX_RETRIES

(***************************************************************************)
(* fetchWithTimeout: the value returned or the error thrown for what       *)
(* fetch() did.  An AbortError is rethrown as a plain Error "Request       *)
(* timeout"; a response that is not ok is thrown with its status.          *)
(***************************************************************************)
responseOk(status) == status >= 200 /\ status <= 299

fetchWithTimeout_AbortKept(raw) ==
    IF raw.kind = "response"
    THEN IF responseOk(raw.status)
         THEN [ok |-> TRUE, error |-> NoError]
         ELSE [ok |-> FALSE,
               error |-> [name |-> "Error", status |-> raw.status, message |-> "HTTP"]]
    ELSE [ok |-> FALSE,
          error |-> [name |-> raw.name, status |-> 0, message |-> "Failed to fetch"]]

fetchWithTimeout(raw) ==
    IF raw.kind = "response"
    THEN IF responseOk(raw.status)
         THEN [ok |-> TRUE, error |-> NoError]
         ELSE [ok |-> FALSE,
               error |-> [name |-> "Error", status |-> raw.status, message |-> "HTTP"]]
    ELSE IF raw.name = "AbortError"
         THEN [ok |-> FALSE,
               error |-> [name |-> "Error", status |-> 0, message |-> "Request timeout"]]
         ELSE [ok |-> FALSE,
               error |-> [name |-> raw.name, status |-> 0, message |-> "Failed to fetch"]]

(***************************************************************************)
(* The catch block of _executeRequest: errors that are not retried.        *)
(***************************************************************************)
dontRetry_Only400(error) ==
    error.name = "AbortError" \/ error.status = 400

dontRetry(error) ==
    error.name = "AbortError" \/ error.status = 400 \/ error.status = 401

(***************************************************************************)
(* Math.min(RETRY_DELAY * Math.pow(2, attempt), MAX_RETRY_DELAY)           *)
(***************************************************************************)
backoffDelay_Uncapped(attempt) == RETRY_DELAY * (2 ^ attempt)

backoffDelay(attempt) ==
    LET d == RETRY_DELAY * (2 ^ attempt)
    IN  IF d < MAX_RETRY_DELAY THEN d ELSE MAX_RETRY_DELAY

(***************************************************************************)
(* saveOfflineQueue / loadOfflineQueue: the stored copy after a save of    *)
(* queue q (a failing setItem is caught and leaves the old copy), and the  *)
(* queue read back at startup.                                             *)
(***************************************************************************)
saveOfflineQueue(q, stored, ok) == IF ok THEN q ELSE stored

loadOfflineQueue(stored) == stored

(***************************************************************************)
(* One instance of _executeRequest.  pc: unused, fetching (awaiting        *)
(* fetchWithTimeout), sleeping (awaiting the backoff timer), settled (its  *)
(* promise is resolved or rejected and the continuation awaiting it has    *)
(* not run yet).  History: netAttempts (calls of fetch), waits (backoff     *)
(* sleeps entered), allOnline (every fetch so far was called while online) *)
(* and write (the call of request() the request came from).                *)
(***************************************************************************)
UnusedExec ==
    [pc |-> "unused", url |-> "", options |-> NoOptions, maxRetries |-> 0,
     attempt |-> 0, lastError |-> NoError, outcome |-> "none",
     result |-> NoResult, delay |-> 0, netAttempts |-> 0, waits |-> 0,
     allOnline |-> TRUE, write |-> 0]

newExec(url, options, write) ==
    [UnusedExec EXCEPT !.pc = "start", !.url = url, !.options = options,
                       !.maxRetries = maxRetriesOf(options), !.write = write]

(***************************************************************************)
(* queueOfflineRequest: push a fresh entry and save.  st is the queue      *)
(* state [q, s, n]: the live queue, the stored copy, the next entry id.    *)
(***************************************************************************)
queueOfflineRequest_LostOnFailure(url, options, write, st, ok) ==
    LET request == [id |-> st.n, url |-> url, options |-> options,
                    retries |-> 0, write |-> write]
        q2 == IF ok THEN Append(st.q, request) ELSE st.q
    IN  [q |-> q2, s |-> saveOfflineQueue(q2, st.s, ok), n |-> st.n + 1]

queueOfflineRequest(url, options, write, st, ok) ==
    LET request == [id |-> st.n, url |-> url, options |-> options,
                    retries |-> 0, write |-> write]
        q2 == Append(st.q, request)
    IN  [q |-> q2, s |-> saveOfflineQueue(q2, st.s, ok), n |-> st.n + 1]

OfflineResult == [source |-> "queue", success |-> TRUE, offline |-> TRUE, queued |-> TRUE]

(***************************************************************************)
(* The head of the for loop of _executeRequest for execution x whose       *)
(* attempt counter is set: leave the loop and throw when the counter       *)
(* passed maxRetries (with lastError, or a generic error if there is       *)
(* none), queue a POST when offline, else call fetch.                      *)
(***************************************************************************)
loopCondition(attempt, maxRetries) == attempt <= maxRetries

routeOffline_WrongCase(online, options) == ~online /\ options.method = "post"

routeOffline(online, options) == ~online /\ options.method = "POST"

loopHead_CheckedOnce(x, online, st, ok) ==
    IF ~loopCondition(x.attempt, x.maxRetries)
    THEN [x |-> [x EXCEPT !.pc = "settled", !.outcome = "rejected",
                          !.lastError = IF @ = NoError THEN AllRetriesFailed ELSE @],
          st |-> st, queued |-> FALSE]
    ELSE IF routeOffline(online, x.options) /\ x.attempt = 0
    THEN [x |-> [x EXCEPT !.pc = "settled", !.outcome = "resolved",
                          !.result = OfflineResult],
          st |-> queueOfflineRequest(x.url, x.options, x.write, st, ok),
          queued |-> TRUE]
    ELSE [x |-> [x EXCEPT !.pc = "fetching", !.netAttempts = @ + 1,
                          !.allOnline = @ /\ online],
          st |-> st, queued |-> FALSE]

loopHead(x, online, st, ok) ==
    IF ~loopCondition(x.attempt, x.maxRetries)
    THEN [x |-> [x EXCEPT !.pc = "settled", !.outcome = "rejected",
                          !.lastError = IF @ = NoError THEN AllRetriesFailed ELSE @],
          st |-> st, queued |-> FALSE]
    ELSE IF routeOffline(online, x.options)
    THEN [x |-> [x EXCEPT !.pc = "settled", !.outcome = "resolved",
                          !.result = OfflineResult],
          st |-> queueOfflineRequest(x.url, x.options, x.write, st, ok),
          queued |-> TRUE]
    ELSE [x |-> [x EXCEPT !.pc = "fetching", !.netAttempts = @ + 1,
                          !.allOnline = @ /\ online],
          st |-> st, queued |-> FALSE]

(***************************************************************************)
(* attempt++ of the for loop.                                              *)
(***************************************************************************)
nextAttempt_Stuck(attempt) == attempt

nextAttempt(attempt) == attempt + 1

(***************************************************************************)
(* What _executeRequest does when fetchWithTimeout came back with r: return *)
(* the result, or in the catch block rethrow, sleep before the next        *)
(* attempt, or fall out of the loop after the last attempt.                *)
(***************************************************************************)
afterFetch(x, r, online, st, ok) ==
    IF r.ok
    THEN [x |-> [x EXCEPT !.pc = "settled", !.outcome = "resolved",
                          !.result = ResponseBody],
          st |-> st, queued |-> FALSE]
    ELSE LET y == [x EXCEPT !.lastError = r.error]
         IN  IF dontRetry(r.error)
             THEN [x |-> [y EXCEPT !.pc = "settled", !.outcome = "rejected"],
                   st |-> st, queued |-> FALSE]
             ELSE IF y.attempt < y.maxRetries
             THEN [x |-> [y EXCEPT !.pc = "sleeping", !.waits = @ + 1,
                                   !.delay = backoffDelay(y.attempt)],
                   st |-> st, queued |-> FALSE]
             ELSE loopHead([y EXCEPT !.attempt = nextAttempt(@)], online, st, ok)

(***************************************************************************)
(* The record of one call of request(): what was asked, the execution      *)
(* whose promise it awaits (0: none), and what the caller received.        *)
(***************************************************************************)
IdleCall ==
    [pc |-> "idle", url |-> "", options |-> NoOptions, promise |-> 0,
     result |-> NoResult, error |-> NoError]

(***************************************************************************)
(* One run of processOfflineQueue.  snapshot is its local array queue, idx *)
(* the position of the for-of loop.  The rest is history: atStart (the     *)
(* live queue when the pass began), replayed and failed (the entries       *)
(* handed to _executeRequest, and those whose replay threw), enqueued (a   *)
(* queueOfflineRequest ran during the pass), overlap (another pass ran     *)
(* during the pass), firstNewId and endNewId (the entry ids handed out     *)
(* during the pass), endLive and endStored (the queue and its stored copy  *)
(* when the pass ended).                                                   *)
(***************************************************************************)
IdlePass ==
    [pc |-> "idle", snapshot |-> <<>>, idx |-> 0, atStart |-> <<>>,
     replayed |-> <<>>,
     failed |-> <<>>, enqueued |-> FALSE, overlap |-> FALSE,
     firstNewId |-> 0, endNewId |-> 0,
     endLive |-> <<>>, endStored |-> <<>>]

EmptyMap == [k \in {} |-> 0]

mapSet(m, k, v) == [x \in (DOMAIN m) \cup {k} |-> IF x = k THEN v ELSE m[x]]

mapDelete_Keeps(m, k) == m

mapDelete(m, k) == [x \in (DOMAIN m) \ {k} |-> m[x]]

QueueState == [q |-> offlineQueue, s |-> storedQueue, n |-> nextEntryId]

MicrotaskPending == \E e \in ExecIds : execs[e].pc = "settled"

(***************************************************************************)
(* processQueue: return when nothing waits or CONCURRENT_REQUESTS requests *)
(* are running; else take the head of state.queue, count it as active and  *)
(* start its _executeRequest (which runs up to its first await).  q, active *)
(* and tk are state.queue, state.activeRequests and the requests; started  *)
(* is the request taken (0: none).  The entries of state.queue are objects, *)
(* so the test of the shifted value never returns.                         *)
(***************************************************************************)
IdleTask == [pc |-> "idle", url |-> "", options |-> NoOptions]

capacityFull_OffByOne(active) == active > CONCURRENT_REQUESTS

capacityFull(active) == active >= CONCURRENT_REQUESTS

processQueue(q, active, tk, online, st, ok) ==
    IF Len(q) = 0 \/ capacityFull(active)
    THEN [started |-> 0, queue |-> q, active |-> active, x |-> UnusedExec,
          st |-> st, queued |-> FALSE]
    ELSE LET t == Head(q)
             r == loopHead(newExec(tk[t].url, tk[t].options, 0), online, st, ok)
         IN  [started |-> t, queue |-> Tail(q), active |-> active + 1,
              x |-> r.x, st |-> r.st, queued |-> r.queued]

execsWith(ex, pq) ==
    IF pq.started = 0 THEN ex ELSE [ex EXCEPT ![<<"task", pq.started>>] = pq.x]

tasksWith(tk, pq) ==
    IF pq.started = 0 THEN tk ELSE [tk EXCEPT ![pq.started].pc = "running"]

(***************************************************************************)
(* DataCache (src/unnamed/part_001).  A payload is modelled by its JSON    *)
(* text, a sequence of character codes: every payload of the cache went    *)
(* through JSON.stringify / JSON.parse or came from r.json().  Null is     *)
(* null; "Aa" and "BB" are two strings with the same fingerprint; 0 is a   *)
(* falsy payload.                                                          *)
(***************************************************************************)
Null == <<110, 117, 108, 108>>
Zero == <<48>>
EmptyString == <<34, 34>>
False == <<102, 97, 108, 115, 101>>
StringAa == <<34, 65, 97, 34>>
StringBB == <<34, 66, 66, 34>>

Payloads == {StringAa, StringBB, Zero}

truthy(data) == data \notin {Null, Zero, EmptyString, False}

CacheKeys == {"cache_records", "cache_stats"}
LoadKeys == {"cache_records"}
LoadIds == 1..MaxLoads
FetchIds == 1..MaxFetches

NoEntry == [present |-> FALSE, data |-> Null, timestamp |-> 0]

(***************************************************************************)
(* hash: the length of the JSON text, "_", and the rolling hash            *)
(* a = ((a << 5) - a) + code; a & a, which is 31 * a + code brought back   *)
(* to 32 bits.  The texts of the model are short enough for 31 * a + code  *)
(* to stay within 32 bits, where a & a changes nothing.  The two parts of  *)
(* the string are kept as a pair.  NullHash is cachedHash = null.          *)
(***************************************************************************)
RECURSIVE reduce(_, _)
reduce(a, codes) ==
    IF codes = <<>> THEN a
    ELSE reduce(((a * 32) - a) + Head(codes), Tail(codes))

hash(data) == <<Len(data), reduce(0, data)>>

NullHash == <<>>

(***************************************************************************)
(* clearAll: remove every key that starts with "cache_".  set: write       *)
(* {data, timestamp}; when the write throws, clearAll and write again;     *)
(* when that throws too, give up.  quota says how many of the writes       *)
(* throw: "ok" none, "retry" the first, "fail" both.                       *)
(***************************************************************************)
Quotas == {"ok", "retry", "fail"}

startsWith(key, prefix) ==
    Len(key) >= Len(prefix) /\ SubSeq(key, 1, Len(prefix)) = prefix

clearAll_Everything(st) == [k \in DOMAIN st |-> NoEntry]

clearAll(st) ==
    [k \in DOMAIN st |-> IF startsWith(k, "cache_") THEN NoEntry ELSE st[k]]

set(st, key, data, t, quota) ==
    LET entry == [present |-> TRUE, data |-> data, timestamp |-> t]
    IN  IF quota = "ok" THEN [st EXCEPT ![key] = entry]
        ELSE IF quota = "retry" THEN [clearAll(st) EXCEPT ![key] = entry]
        ELSE clearAll(st)

(***************************************************************************)
(* get: null when there is no entry or its data is falsy; else the data,   *)
(* its age and isExpired = age > (expiryMs || 300000).                     *)
(***************************************************************************)
NoCached == [found |-> FALSE, data |-> Null, isExpired |-> FALSE, age |-> 0]

get(st, key, expiryMs, t) ==
    IF ~st[key].present THEN NoCached
    ELSE IF ~truthy(st[key].data) THEN NoCached
    ELSE LET age == t - st[key].timestamp
         IN  [found |-> TRUE, data |-> st[key].data,
              isExpired |-> age > (IF expiryMs # 0 THEN expiryMs ELSE DEFAULT_EXPIRY),
              age |-> age]

(***************************************************************************)
(* A promise fetch(url).then(r => r.json()): pending, then fulfilled with  *)
(* a result or rejected.  The result is given as what extractData makes of *)
(* it (the result itself without extractData): a payload or Null.          *)
(***************************************************************************)
IdleFetch == [pc |-> "idle", url |-> "", result |-> Null]

FetchOutcomes ==
    { [pc |-> "fulfilled", result |-> r] : r \in Payloads \cup {Null} }
    \cup { [pc |-> "rejected", result |-> Null] }

(***************************************************************************)
(* One call of fetchWithCache (kind "load") or _preloadFetch (kind         *)
(* "preload").  cached, cachedHash and promise are its locals; onData is   *)
(* the sequence of the onData calls it made.  History: entryAtCall (the    *)
(* stored entry when it was called), issued (it called fetch), shared (a   *)
(* fetch of its url was pending when it was called), fresh and gotResult   *)
(* (what its await gave it).                                               *)
(***************************************************************************)
IdleLoad ==
    [pc |-> "idle", kind |-> "", url |-> "", cacheKey |-> "", expiryMs |-> 0,
     cached |-> NoCached, cachedHash |-> NullHash, promise |-> 0,
     onData |-> <<>>, entryAtCall |-> NoEntry, issued |-> FALSE,
     shared |-> FALSE, gotResult |-> "none", fresh |-> Null]

CacheState ==
    [store |-> store, inflight |-> inflight, fetches |-> fetches,
     loads |-> loads, microtasks |-> microtasks]

PendingFetches(fs, url) ==
    { f \in FetchIds : fs[f].pc = "pending" /\ fs[f].url = url }

FreeFetch(fs) ==
    IF \E f \in FetchIds : fs[f].pc = "idle"
    THEN CHOOSE f \in FetchIds :
            /\ fs[f].pc = "idle"
            /\ \A g \in FetchIds : g < f => fs[g].pc # "idle"
    ELSE 0

FreeLoad(ls) ==
    IF \E l \in LoadIds : ls[l].pc = "idle"
    THEN CHOOSE l \in LoadIds :
            /\ ls[l].pc = "idle"
            /\ \A m \in LoadIds : m < l => ls[m].pc # "idle"
    ELSE 0

(***************************************************************************)
(* if (!this._inflight[url]) this._inflight[url] = fetch(url).then(...);   *)
(* then the caller awaits (or chains on) this._inflight[url]: its          *)
(* continuation is queued at once when that promise is already settled.    *)
(***************************************************************************)
inflightHasUrl(S, url) == S.inflight[url] # 0

joinFetch(S, l, url) ==
    LET has == inflightHasUrl(S, url)
        f == IF has THEN S.inflight[url] ELSE FreeFetch(S.fetches)
        fs == IF has THEN S.fetches
              ELSE [S.fetches EXCEPT ![f] =
                       [pc |-> "pending", url |-> url, result |-> Null]]
    IN  [S EXCEPT !.inflight = [@ EXCEPT ![url] = f],
                  !.fetches = fs,
                  !.microtasks = IF fs[f].pc = "pending" THEN @ ELSE Append(@, l),
                  !.loads = [@ EXCEPT ![l].promise = f,
                                      ![l].issued = ~has,
                                      ![l].shared = PendingFetches(S.fetches, url) # {}]]

(***************************************************************************)
(* fetchWithCache up to its await: read the cache, hand cached data to     *)
(* onData, join or start the fetch.                                        *)
(***************************************************************************)
cacheCall(cached) ==
    [data |-> cached.data, fromCache |-> TRUE, isExpired |-> cached.isExpired,
     error |-> FALSE]

fetchWithCache(S, l, url, cacheKey, expiryMs, t) ==
    LET cached == get(S.store, cacheKey, expiryMs, t)
        started == [IdleLoad EXCEPT
                       !.pc = "awaiting", !.kind = "load", !.url = url,
                       !.cacheKey = cacheKey, !.expiryMs = expiryMs,
                       !.cached = cached,
                       !.cachedHash = IF cached.found THEN hash(cached.data)
                                      ELSE NullHash,
                       !.onData = IF cached.found THEN <<cacheCall(cached)>>
                                  ELSE <<>>,
                       !.entryAtCall = S.store[cacheKey]]
    IN  joinFetch([S EXCEPT !.loads = [@ EXCEPT ![l] = started]], l, url)

(***************************************************************************)
(* _preloadFetch: join or start the fetch and chain the store step on it.  *)
(***************************************************************************)
preloadFetch(S, l, url, cacheKey) ==
    LET started == [IdleLoad EXCEPT
                       !.pc = "awaiting", !.kind = "preload", !.url = url,
                       !.cacheKey = cacheKey,
                       !.entryAtCall = S.store[cacheKey]]
    IN  joinFetch([S EXCEPT !.loads = [@ EXCEPT ![l] = started]], l, url)

(***************************************************************************)
(* The two quality checks: ConnectionMonitor.checkConnection               *)
(* (src/unnamed/part_000) and RequestOptimizer.detectConnectionQuality.    *)
(* Each fetches a tiny fixed resource and derives a tier from the time the *)
(* fetch took.  A probe is one such fetch in flight; owner says which      *)
(* check awaits it.  A condition records what a tier was derived from: no  *)
(* connectivity, a latency, or a probe that failed.                        *)
(***************************************************************************)
ProbeIds == 1..MaxProbes

IdleProbe == [pc |-> "idle", owner |-> ""]

NoCondition == [kind |-> "none", latency |-> 0]

Offline == [kind |-> "offline", latency |-> 0]

ProbeFailed == [kind |-> "failed", latency |-> 0]

Measured(latency) == [kind |-> "latency", latency |-> latency]

FreeProbe(ps) ==
    IF \E p \in ProbeIds : ps[p].pc = "idle"
    THEN CHOOSE p \in ProbeIds :
            /\ ps[p].pc = "idle"
            /\ \A q \in ProbeIds : q < p => ps[q].pc # "idle"
    ELSE 0

(***************************************************************************)
(* if (!navigator.onLine): both checks set their tier to offline and       *)
(* return before the probe.                                                *)
(***************************************************************************)
noConnectivity_Ignored(on) == FALSE

noConnectivity(on) == ~on

(***************************************************************************)
(* checkConnection after the probe: the tier from the latency, the sample  *)
(* pushed on the history, and the oldest sample shifted out when the       *)
(* history is longer than HISTORY_SIZE.  The latency is a whole number of  *)
(* milliseconds, which Math.round leaves alone; Date.now() is given by the *)
(* number of the measurement.                                              *)
(***************************************************************************)
qualityOf(latency) ==
    IF latency < LATENCY_EXCELLENT THEN "excellent"
    ELSE IF latency < LATENCY_GOOD THEN "good"
    ELSE IF latency < LATENCY_FAIR THEN "fair"
    ELSE IF latency < LATENCY_POOR THEN "poor"
    ELSE "poor"

keepRecent_DropsNewest(history) ==
    IF Len(history) > HISTORY_SIZE
    THEN SubSeq(history, 1, Len(history) - 1)
    ELSE history

keepRecent(history) ==
    IF Len(history) > HISTORY_SIZE THEN Tail(history) ELSE history

probeDone(m, latency) ==
    LET t == m.lastCheck + 1
        quality == qualityOf(latency)
    IN  [m EXCEPT !.latency = latency,
                  !.lastCheck = t,
                  !.quality = quality,
                  !.history = keepRecent(Append(@,
                                 [timestamp |-> t, latency |-> latency,
                                  quality |-> quality]))]

(***************************************************************************)
(* The catch block of checkConnection: the probe itself failed.            *)
(***************************************************************************)
probeFailed_Offline(m) == [m EXCEPT !.quality = "offline"]

probeFailed(m) == [m EXCEPT !.quality = "poor"]

(***************************************************************************)
(* detectConnectionQuality after the probe, and its catch block.           *)
(***************************************************************************)
connectionQualityOf(duration) ==
    IF duration < 100 THEN "good"
    ELSE IF duration < 500 THEN "fair"
    ELSE "poor"

detectFailed == "poor"

(***************************************************************************)
(* ConnectionMonitor.getAdaptiveTimeout: Math.round(baseTimeout *          *)
(* multiplier), the multipliers 0.7, 1.0, 1.5, 2.5, 3.0 taken in tenths.   *)
(* roundDiv(n, d) is Math.round(n / d) for n >= 0 (halves round up).       *)
(* RequestOptimizer.getAdaptiveTimeout: the switch on connectionQuality.   *)
(***************************************************************************)
roundDiv(n, d) == (2 * n + d) \div (2 * d)

multiplierTenths_PoorBelowFair(quality) ==
    CASE quality = "excellent" -> 7
      [] quality = "good" -> 10
      [] quality = "fair" -> 15
      [] quality = "poor" -> 12
      [] quality = "offline" -> 30
      [] OTHER -> 15

multiplierTenths(quality) ==
    CASE quality = "excellent" -> 7
      [] quality = "good" -> 10
      [] quality = "fair" -> 15
      [] quality = "poor" -> 25
      [] quality = "offline" -> 30
      [] OTHER -> 15

ConnectionMonitor_getAdaptiveTimeout(quality, baseTimeout) ==
    roundDiv(baseTimeout * multiplierTenths(quality), 10)

getAdaptiveTimeout(quality) ==
    CASE quality = "good" -> INITIAL_TIMEOUT
      [] quality = "fair" -> (INITIAL_TIMEOUT * 3) \div 2
      [] quality = "poor" -> MAX_TIMEOUT
      [] OTHER -> MAX_TIMEOUT

NoQuery ==
    [baseTimeout |-> 0, quality |-> "", monitor |-> 0,
     connectionQuality |-> "", executor |-> 0]

(***************************************************************************)
(* Direct calls of the cache API.  mode says what localStorage does during *)
(* a call of set: the modes of Quotas (the writes succeed or throw for     *)
(* lack of space), or "unavailable": every access to localStorage throws   *)
(* (a browser that denies the page its storage throws a SecurityError on   *)
(* each use of localStorage).  The first setItem of set is inside a try;   *)
(* this.clearAll() runs in the catch block, outside any try, and reads     *)
(* localStorage.length.  get is given by its result and by the store it    *)
(* leaves; remove deletes the key.                                         *)
(***************************************************************************)
StorageModes == Quotas \cup {"unavailable"}

setThrows(mode) == mode = "unavailable"

setCall(st, key, data, t, mode) ==
    [store |-> IF mode \in Quotas THEN set(st, key, data, t, mode) ELSE st,
     threw |-> setThrows(mode)]

getCall(st, key, expiryMs, t) ==
    [store |-> st, result |-> get(st, key, expiryMs, t)]

remove(st, key) == [st EXCEPT ![key] = NoEntry]

NoApiCall ==
    [op |-> "none", key |-> "", data |-> Null, expiryMs |-> 0, mode |-> "",
     before |-> [k \in CacheKeys |-> NoEntry], at |-> 0, threw |-> FALSE,
     result |-> NoCached]

(***************************************************************************)
(* Construction: the state object, then init() with nothing stored.  The   *)
(* pages of the executor and of the loader run no quality check: the       *)
(* monitor stays as a page that starts online constructs it.               *)
(***************************************************************************)
InitExecutor ==
    /\ isOnline \in BOOLEAN
    /\ offlineQueue = <<>>
    /\ storedQueue = <<>>
    /\ storageOk = TRUE
    /\ inflightRequests = EmptyMap
    /\ execs = [e \in ExecIds |-> UnusedExec]
    /\ calls = [c \in Calls |-> IdleCall]
    /\ passes = [p \in PassIds |-> IdlePass]
    /\ nextEntryId = 1
    /\ reloads = 0
    /\ acked = {}
    /\ delivered = {}
    /\ queue = <<>>
    /\ activeRequests = 0
    /\ tasks = [t \in TaskIds |-> IdleTask]

(***************************************************************************)
(* ConnectionMonitor.state as constructed (isOnline: navigator.onLine,     *)
(* quality: 'unknown') and RequestOptimizer.state.connectionQuality        *)
(* ('good'), before any quality check.                                     *)
(***************************************************************************)
newMonitor(on) ==
    [isOnline |-> on, quality |-> "unknown", latency |-> 0, lastCheck |-> 0,
     history |-> <<>>]

InitQuality ==
    /\ connectionQuality = "good"
    /\ conditions = [monitor |-> NoCondition, executor |-> NoCondition]
    /\ probes = [p \in ProbeIds |-> IdleProbe]
    /\ checks = [monitor |-> 0, executor |-> 0]
    /\ asked = NoQuery

InitMonitor == monitor = newMonitor(onLine) /\ InitQuality

Init ==
    /\ InitExecutor
    /\ store = [k \in CacheKeys |-> NoEntry]
    /\ inflight = [u \in Urls |-> 0]
    /\ fetches = [f \in FetchIds |-> IdleFetch]
    /\ loads = [l \in LoadIds |-> IdleLoad]
    /\ microtasks = <<>>
    /\ now = 0
    /\ api = NoApiCall
    /\ onLine = isOnline
    /\ monitor = newMonitor(TRUE)
    /\ InitQuality

(***************************************************************************)
(* A queueOfflineRequest during a run of processOfflineQueue is recorded   *)
(* in the history of every running pass.                                   *)
(***************************************************************************)
noteEnqueue(ps, queued) ==
    [p \in PassIds |->
        IF queued /\ ps[p].pc = "running"
        THEN [ps[p] EXCEPT !.enqueued = TRUE]
        ELSE ps[p]]

(***************************************************************************)
(* request(url, options), up to its first await.                           *)
(***************************************************************************)
inflightHas_Never(m, id) == FALSE

inflightHas(m, id) == id \in DOMAIN m

request(c, url, options) ==
    /\ calls[c].pc = "idle"
    /\ \A d \in Calls : d < c => calls[d].pc # "idle"
    /\ LET requestId == generateRequestId(url, options)
       IN  IF inflightHas(inflightRequests, requestId)
           THEN /\ calls' = [calls EXCEPT ![c] =
                        [IdleCall EXCEPT !.pc = "pending", !.url = url,
                             !.options = options,
                             !.promise = inflightRequests[requestId]]]
                /\ UNCHANGED <<offlineQueue, storedQueue, inflightRequests,
                               execs, passes, nextEntryId>>
           ELSE LET r == loopHead(newExec(url, options, c), isOnline,
                                  QueueState, storageOk)
                IN  /\ execs' = [execs EXCEPT ![<<"call", c>>] = r.x]
                    /\ inflightRequests' = mapSet(inflightRequests, requestId, c)
                    /\ calls' = [calls EXCEPT ![c] =
                            [IdleCall EXCEPT !.pc = "pending", !.url = url,
                                 !.options = options, !.promise = c]]
                    /\ offlineQueue' = r.st.q
                    /\ storedQueue' = r.st.s
                    /\ nextEntryId' = r.st.n
                    /\ passes' = noteEnqueue(passes, r.queued)
    /\ UNCHANGED <<isOnline, storageOk, reloads, acked, delivered>>
    /\ UNCHANGED <<queueVars, cacheVars, monitorVars>>

(***************************************************************************)
(* The fetch of execution e settles with raw (a response, a network error, *)
(* or the abort of the timeout timer).                                     *)
(***************************************************************************)
FetchSettles(e, raw) ==
    /\ ~MicrotaskPending
    /\ execs[e].pc = "fetching"
    /\ LET r == afterFetch(execs[e], fetchWithTimeout(raw), isOnline,
                           QueueState, storageOk)
       IN  /\ execs' = [execs EXCEPT ![e] = r.x]
           /\ offlineQueue' = r.st.q
           /\ storedQueue' = r.st.s
           /\ nextEntryId' = r.st.n
           /\ passes' = noteEnqueue(passes, r.queued)
           /\ delivered' = IF fetchWithTimeout(raw).ok
                                /\ execs[e].options.method = "POST"
                           THEN delivered \cup {execs[e].write}
                           ELSE delivered
    /\ UNCHANGED <<isOnline, storageOk, inflightRequests, calls, reloads, acked>>
    /\ UNCHANGED <<queueVars, cacheVars, monitorVars>>

(***************************************************************************)
(* The backoff timer of execution e fires: attempt++ and the loop head.    *)
(***************************************************************************)
SleepDone(e) ==
    /\ ~MicrotaskPending
    /\ execs[e].pc = "sleeping"
    /\ LET r == loopHead([execs[e] EXCEPT !.attempt = nextAttempt(@)],
                         isOnline, QueueState, storageOk)
       IN  /\ execs' = [execs EXCEPT ![e] = r.x]
           /\ offlineQueue' = r.st.q
           /\ storedQueue' = r.st.s
           /\ nextEntryId' = r.st.n
           /\ passes' = noteEnqueue(passes, r.queued)
    /\ UNCHANGED <<isOnline, storageOk, inflightRequests, calls, reloads,
                   acked, delivered>>
    /\ UNCHANGED <<queueVars, cacheVars, monitorVars>>

(***************************************************************************)
(* request() after its await: the finally block deletes the in-flight      *)
(* entry, and every caller that holds the promise receives its outcome.    *)
(***************************************************************************)
settleCall(k, x) ==
    [k EXCEPT !.pc = x.outcome, !.url = "", !.options = NoOptions,
              !.result = IF x.outcome = "resolved" THEN x.result ELSE NoResult,
              !.error = IF x.outcome = "rejected" THEN x.lastError ELSE NoError]

RequestSettles(c) ==
    /\ execs[<<"call", c>>].pc = "settled"
    /\ LET x == execs[<<"call", c>>]
       IN  /\ inflightRequests' =
                  mapDelete(inflightRequests, generateRequestId(x.url, x.options))
           /\ calls' = [d \in Calls |->
                  IF calls[d].pc = "pending" /\ calls[d].promise = c
                  THEN settleCall(calls[d], x)
                  ELSE calls[d]]
           /\ execs' = [execs EXCEPT ![<<"call", c>>] = UnusedExec]
           /\ acked' = IF x.outcome = "resolved" /\ x.result = OfflineResult
                       THEN acked \cup {x.write}
                       ELSE acked
    /\ UNCHANGED <<isOnline, offlineQueue, storedQueue, storageOk, passes,
                   nextEntryId, reloads, delivered>>
    /\ UNCHANGED <<queueVars, cacheVars, monitorVars>>

(***************************************************************************)
(* processOfflineQueue up to its first await, as pass p: copy the queue,   *)
(* clear it, save, and start the replay of the first entry.  online is the *)
(* value of state.isOnline when it runs, ex the executions when it returns *)
(* to its caller.                                                          *)
(***************************************************************************)
snapshotOf_Reversed(q) == [i \in 1..Len(q) |-> q[Len(q) + 1 - i]]

snapshotOf(q) == q

clearedQueue_Kept(q) == q

clearedQueue(q) == <<>>

startPass(p, online, ex) ==
    LET copy == snapshotOf(offlineQueue)
        live == clearedQueue(offlineQueue)
        st == [q |-> live, s |-> saveOfflineQueue(live, storedQueue, storageOk),
               n |-> nextEntryId]
        entry == copy[1]
        r == loopHead(newExec(entry.url, entry.options, entry.write), online,
                      st, storageOk)
        others == \E o \in PassIds : passes[o].pc = "running"
    IN  /\ execs' = [ex EXCEPT ![<<"pass", p>>] = r.x]
        /\ offlineQueue' = r.st.q
        /\ storedQueue' = r.st.s
        /\ nextEntryId' = r.st.n
        /\ passes' = [o \in PassIds |->
               IF o = p
               THEN [IdlePass EXCEPT !.pc = "running", !.snapshot = copy,
                         !.idx = 1, !.atStart = offlineQueue,
                         !.replayed = <<entry>>,
                         !.enqueued = r.queued, !.overlap = others,
                         !.firstNewId = nextEntryId]
               ELSE IF passes[o].pc = "running"
               THEN [passes[o] EXCEPT !.overlap = TRUE,
                                      !.enqueued = @ \/ r.queued]
               ELSE passes[o]]

FreePass(p) ==
    /\ passes[p].pc = "idle"
    /\ \A o \in PassIds : o < p => passes[o].pc # "idle"

(***************************************************************************)
(* The listeners of setupOnlineListener.  The platform fires online when   *)
(* connectivity returns and offline when it goes.  The online listener     *)
(* calls processOfflineQueue and then processQueue, which, being online,   *)
(* leaves the offline queue alone.  navigator.onLine changes with the      *)
(* connectivity the events report.                                         *)
(***************************************************************************)
OnlineEvent ==
    /\ ~MicrotaskPending
    /\ ~isOnline
    /\ isOnline' = TRUE
    /\ LET pq == processQueue(queue, activeRequests, tasks, TRUE, QueueState,
                              storageOk)
       IN  /\ queue' = pq.queue
           /\ activeRequests' = pq.active
           /\ tasks' = tasksWith(tasks, pq)
           /\ IF Len(offlineQueue) = 0
              THEN /\ execs' = execsWith(execs, pq)
                   /\ UNCHANGED <<offlineQueue, storedQueue, passes, nextEntryId>>
              ELSE \E p \in PassIds :
                      /\ FreePass(p)
                      /\ startPass(p, TRUE, execsWith(execs, pq))
    /\ UNCHANGED <<storageOk, inflightRequests, calls, reloads, acked, delivered>>
    /\ onLine' = TRUE
    /\ UNCHANGED <<cacheVars, qualityVars>>

OfflineEvent ==
    /\ ~MicrotaskPending
    /\ isOnline
    /\ isOnline' = FALSE
    /\ UNCHANGED <<offlineQueue, storedQueue, storageOk, inflightRequests,
                   execs, calls, passes, nextEntryId, reloads, acked, delivered>>
    /\ onLine' = FALSE
    /\ UNCHANGED <<queueVars, cacheVars, qualityVars>>

(***************************************************************************)
(* processOfflineQueue after the await of a replay: re-queue the entry if  *)
(* the replay threw, then replay the next entry, or save after the last.   *)
(***************************************************************************)
requeue_Front(q, entry) == <<entry>> \o q

requeue_Dropped(q, entry) == q

requeue_Counted(q, entry) == Append(q, [entry EXCEPT !.retries = @ + 1])

requeue(q, entry) == Append(q, entry)

DrainContinue(p) ==
    /\ execs[<<"pass", p>>].pc = "settled"
    /\ passes[p].pc = "running"
    /\ LET x == execs[<<"pass", p>>]
           ps == passes[p]
           entry == ps.snapshot[ps.idx]
           threw == x.outcome = "rejected"
           q1 == IF threw THEN requeue(offlineQueue, entry) ELSE offlineQueue
           failed1 == IF threw THEN Append(ps.failed, entry) ELSE ps.failed
       IN  IF ps.idx < Len(ps.snapshot)
           THEN LET nxt == ps.snapshot[ps.idx + 1]
                    r == loopHead(newExec(nxt.url, nxt.options, nxt.write),
                                  isOnline,
                                  [q |-> q1, s |-> storedQueue, n |-> nextEntryId],
                                  storageOk)
                IN  /\ execs' = [execs EXCEPT ![<<"pass", p>>] = r.x]
                    /\ offlineQueue' = r.st.q
                    /\ storedQueue' = r.st.s
                    /\ nextEntryId' = r.st.n
                    /\ passes' = noteEnqueue(
                           [passes EXCEPT ![p] =
                               [ps EXCEPT !.idx = @ + 1, !.failed = failed1,
                                          !.replayed = Append(@, nxt)]],
                           r.queued)
           ELSE /\ execs' = [execs EXCEPT ![<<"pass", p>>] = UnusedExec]
                /\ offlineQueue' = q1
                /\ storedQueue' = saveOfflineQueue(q1, storedQueue, storageOk)
                /\ nextEntryId' = nextEntryId
                /\ passes' = [passes EXCEPT ![p] =
                       [ps EXCEPT !.pc = "done", !.failed = failed1,
                                  !.endNewId = nextEntryId, !.endLive = q1,
                                  !.endStored = storedQueue']]
    /\ UNCHANGED <<isOnline, storageOk, inflightRequests, calls, reloads,
                   acked, delivered>>
    /\ UNCHANGED <<queueVars, cacheVars, monitorVars>>

(***************************************************************************)
(* The page is reloaded: memory is lost, the stored queue is not, and      *)
(* init() runs (loadOfflineQueue, setupOnlineListener, and processQueue on *)
(* the new, empty state.queue).                                            *)
(***************************************************************************)
init(stored) == loadOfflineQueue(stored)

Reload ==
    /\ ~MicrotaskPending
    /\ reloads < MaxReloads
    /\ reloads' = reloads + 1
    /\ offlineQueue' = init(storedQueue)
    /\ inflightRequests' = EmptyMap
    /\ execs' = [e \in ExecIds |-> UnusedExec]
    /\ calls' = [c \in Calls |->
           IF calls[c].pc = "pending"
           THEN [IdleCall EXCEPT !.pc = "lost"]
           ELSE calls[c]]
    /\ passes' = [p \in PassIds |->
           IF passes[p].pc = "running"
           THEN [IdlePass EXCEPT !.pc = "aborted"]
           ELSE passes[p]]
    /\ LET pq == processQueue(<<>>, 0, tasks, isOnline, QueueState, storageOk)
       IN  /\ queue' = pq.queue
           /\ activeRequests' = pq.active
    /\ tasks' = [t \in TaskIds |->
           IF tasks[t].pc \in {"waiting", "running"}
           THEN [IdleTask EXCEPT !.pc = "lost"]
           ELSE tasks[t]]
    /\ UNCHANGED <<isOnline, storedQueue, storageOk, nextEntryId, acked, delivered>>
    /\ UNCHANGED <<cacheVars, monitorVars>>

Next ==
    \/ \E c \in Calls, u \in Urls, o \in OptionsSet : request(c, u, o)
    \/ \E e \in ExecIds, raw \in RawOutcomes : FetchSettles(e, raw)
    \/ \E e \in ExecIds : SleepDone(e)
    \/ \E c \in Calls : RequestSettles(c)
    \/ \E p \in PassIds : DrainContinue(p)
    \/ OnlineEvent
    \/ OfflineEvent
    \/ Reload

Spec == Init /\ [][Next]_vars


(***************************************************************************)
(* Liveness is checked without page reloads and under the scheduling the   *)
(* event loop gives: a fetch settles or is aborted by its timeout timer, a *)
(* backoff timer fires, a pending continuation runs.                       *)
(***************************************************************************)
NextLive ==
    \/ \E c \in Calls, u \in Urls, o \in OptionsSet : request(c, u, o)
    \/ \E e \in ExecIds, raw \in RawOutcomes : FetchSettles(e, raw)
    \/ \E e \in ExecIds : SleepDone(e)
    \/ \E c \in Calls : RequestSettles(c)
    \/ \E p \in PassIds : DrainContinue(p)
    \/ OnlineEvent
    \/ OfflineEvent

Fairness ==
    /\ \A e \in ExecIds : WF_vars(\E raw \in RawOutcomes : FetchSettles(e, raw))
    /\ \A e \in ExecIds : WF_vars(SleepDone(e))
    /\ \A c \in Calls : WF_vars(RequestSettles(c))
    /\ \A p \in PassIds : WF_vars(DrainContinue(p))

FairSpec == Init /\ [][NextLive]_vars /\ Fairness

(***************************************************************************)
(* The bounded-concurrency queue.  Nothing in the program puts a request   *)
(* on state.queue; Enqueue is the caller the queue is made for: it pushes  *)
(* {url, options, resolve, reject} and calls processQueue.  TaskSettles is *)
(* processQueue after its await: settle the request's promise, and in the  *)
(* finally block count the request out and call processQueue again.        *)
(***************************************************************************)
TaskOptionsSet ==
    { [method |-> "", body |-> "", hasMaxRetries |-> TRUE, maxRetries |-> 1] }

Enqueue(t, url, options) ==
    /\ tasks[t].pc = "idle"
    /\ \A u \in TaskIds : u < t => tasks[u].pc # "idle"
    /\ LET tk1 == [tasks EXCEPT ![t] =
                      [pc |-> "waiting", url |-> url, options |-> options]]
           pq == processQueue(Append(queue, t), activeRequests, tk1, isOnline,
                              QueueState, storageOk)
       IN  /\ queue' = pq.queue
           /\ activeRequests' = pq.active
           /\ tasks' = tasksWith(tk1, pq)
           /\ execs' = execsWith(execs, pq)
           /\ offlineQueue' = pq.st.q
           /\ storedQueue' = pq.st.s
           /\ nextEntryId' = pq.st.n
           /\ passes' = noteEnqueue(passes, pq.queued)
    /\ UNCHANGED <<isOnline, storageOk, inflightRequests, calls, reloads,
                   acked, delivered>>
    /\ UNCHANGED <<cacheVars, monitorVars>>

finallyProcessQueue_Skipped(q, active, tk, online, st, ok) ==
    [started |-> 0, queue |-> q, active |-> active, x |-> UnusedExec,
     st |-> st, queued |-> FALSE]

finallyProcessQueue(q, active, tk, online, st, ok) ==
    processQueue(q, active, tk, online, st, ok)

TaskSettles(t) ==
    /\ execs[<<"task", t>>].pc = "settled"
    /\ tasks[t].pc = "running"
    /\ LET x == execs[<<"task", t>>]
           tk1 == [tasks EXCEPT ![t] = [IdleTask EXCEPT !.pc = x.outcome]]
           ex1 == [execs EXCEPT ![<<"task", t>>] = UnusedExec]
           pq == finallyProcessQueue(queue, activeRequests - 1, tk1, isOnline,
                                     QueueState, storageOk)
       IN  /\ queue' = pq.queue
           /\ activeRequests' = pq.active
           /\ tasks' = tasksWith(tk1, pq)
           /\ execs' = execsWith(ex1, pq)
           /\ offlineQueue' = pq.st.q
           /\ storedQueue' = pq.st.s
           /\ nextEntryId' = pq.st.n
           /\ passes' = noteEnqueue(passes, pq.queued)
    /\ UNCHANGED <<isOnline, storageOk, inflightRequests, calls, reloads,
                   acked, delivered>>
    /\ UNCHANGED <<cacheVars, monitorVars>>

QueueNext ==
    \/ \E t \in TaskIds, u \in Urls, o \in TaskOptionsSet : Enqueue(t, u, o)
    \/ \E t \in TaskIds, raw \in RawOutcomes : FetchSettles(<<"task", t>>, raw)
    \/ \E t \in TaskIds : SleepDone(<<"task", t>>)
    \/ \E t \in TaskIds : TaskSettles(t)
    \/ OnlineEvent
    \/ OfflineEvent

QueueSpec == Init /\ [][QueueNext]_vars

QueueFairness ==
    /\ \A t \in TaskIds :
          WF_vars(\E raw \in RawOutcomes : FetchSettles(<<"task", t>>, raw))
    /\ \A t \in TaskIds : WF_vars(SleepDone(<<"task", t>>))
    /\ \A t \in TaskIds : WF_vars(TaskSettles(t))

QueueFairSpec == QueueSpec /\ QueueFairness

(***************************************************************************)
(* fetchWithCache after its await.  Fulfilled: delete the in-flight entry, *)
(* and for a payload that is not null store it and call onData if its hash *)
(* differs from cachedHash.  Rejected (the fetch, r.json() or extractData  *)
(* failed): delete the in-flight entry and call onData(null, {error}) if   *)
(* no cached data was shown.  onData and extractData are the caller's      *)
(* functions and are taken not to throw.                                   *)
(***************************************************************************)
networkCall(freshData) ==
    [data |-> freshData, fromCache |-> FALSE, isExpired |-> FALSE, error |-> FALSE]

errorCall == [data |-> Null, fromCache |-> FALSE, isExpired |-> TRUE, error |-> TRUE]

hashChanged(freshHash, cachedHash) == freshHash # cachedHash

persistFresh_OnlyIfChanged(st, key, freshData, changed, t, quota) ==
    IF changed THEN set(st, key, freshData, t, quota) ELSE st

persistFresh(st, key, freshData, changed, t, quota) ==
    IF changed
    THEN set(st, key, freshData, t, quota)
    ELSE set(st, key, freshData, t, quota)

reportError_Always(cached) == TRUE

reportError(cached) == ~cached.found

afterAwait(S, l, t, quota) ==
    LET L == S.loads[l]
        F == S.fetches[L.promise]
        S1 == [S EXCEPT !.inflight = [@ EXCEPT ![L.url] = 0],
                        !.loads = [@ EXCEPT ![l].pc = "done",
                                            ![l].gotResult = F.pc,
                                            ![l].fresh = F.result]]
    IN  IF F.pc = "fulfilled"
        THEN IF F.result # Null
             THEN LET changed == hashChanged(hash(F.result), L.cachedHash)
                  IN  [S1 EXCEPT
                          !.store = persistFresh(@, L.cacheKey, F.result,
                                                 changed, t, quota),
                          !.loads = [@ EXCEPT ![l].onData =
                                        IF changed
                                        THEN Append(@, networkCall(F.result))
                                        ELSE @]]
             ELSE S1
        ELSE IF reportError(L.cached)
             THEN [S1 EXCEPT !.loads = [@ EXCEPT ![l].onData = Append(@, errorCall)]]
             ELSE S1

(***************************************************************************)
(* _preloadFetch after the fetch: store the extracted data if it is        *)
(* truthy; a failure is swallowed.  The in-flight entry is left alone.     *)
(***************************************************************************)
afterPreload(S, l, t, quota) ==
    LET L == S.loads[l]
        F == S.fetches[L.promise]
        S1 == [S EXCEPT !.loads = [@ EXCEPT ![l].pc = "done",
                                            ![l].gotResult = F.pc,
                                            ![l].fresh = F.result]]
    IN  IF F.pc = "fulfilled" /\ truthy(F.result)
        THEN [S1 EXCEPT !.store = set(@, L.cacheKey, F.result, t, quota)]
        ELSE S1

CanJoin(S, url) == S.inflight[url] # 0 \/ FreeFetch(S.fetches) # 0

setCacheState(S) ==
    /\ store' = S.store
    /\ inflight' = S.inflight
    /\ fetches' = S.fetches
    /\ loads' = S.loads
    /\ microtasks' = S.microtasks

(***************************************************************************)
(* The steps of the loader: a page calls fetchWithCache or _preloadFetch   *)
(* (from a task, when no continuation is pending); a fetch settles and the *)
(* continuations that wait for it are queued in the order they were        *)
(* registered; the first queued continuation runs.  The onData call for    *)
(* fresh data may itself call fetchWithCache for the same resource.        *)
(***************************************************************************)
Load(l, url, cacheKey, expiryMs) ==
    /\ microtasks = <<>>
    /\ l # 0 /\ l = FreeLoad(loads)
    /\ CanJoin(CacheState, url)
    /\ setCacheState(fetchWithCache(CacheState, l, url, cacheKey, expiryMs, now))
    /\ UNCHANGED <<now, execVars, api, monitorVars>>

Preload(l, url, cacheKey) ==
    /\ microtasks = <<>>
    /\ l # 0 /\ l = FreeLoad(loads)
    /\ CanJoin(CacheState, url)
    /\ setCacheState(preloadFetch(CacheState, l, url, cacheKey))
    /\ UNCHANGED <<now, execVars, api, monitorVars>>

waiters(ls, f) ==
    LET W == { l \in LoadIds : ls[l].pc = "awaiting" /\ ls[l].promise = f }
    IN  [i \in 1..Cardinality(W) |->
            CHOOSE l \in W : Cardinality({ m \in W : m < l }) = i - 1]

CacheFetchSettles(f, outcome) ==
    /\ microtasks = <<>>
    /\ fetches[f].pc = "pending"
    /\ fetches' = [fetches EXCEPT ![f].pc = outcome.pc, ![f].result = outcome.result]
    /\ microtasks' = waiters(loads, f)
    /\ UNCHANGED <<store, inflight, loads, now, execVars, api, monitorVars>>

RunMicrotask(quota, reenter) ==
    /\ microtasks # <<>>
    /\ LET l == Head(microtasks)
           S0 == [CacheState EXCEPT !.microtasks = Tail(@)]
           S1 == IF loads[l].kind = "load"
                 THEN afterAwait(S0, l, now, quota)
                 ELSE afterPreload(S0, l, now, quota)
           shown == /\ Len(S1.loads[l].onData) > Len(loads[l].onData)
                    /\ ~S1.loads[l].onData[Len(S1.loads[l].onData)].error
       IN  /\ reenter => /\ shown
                         /\ FreeLoad(S1.loads) # 0
                         /\ CanJoin(S1, loads[l].url)
           /\ setCacheState(
                 IF reenter
                 THEN fetchWithCache(S1, FreeLoad(S1.loads), loads[l].url,
                                     loads[l].cacheKey, loads[l].expiryMs, now)
                 ELSE S1)
    /\ UNCHANGED <<now, execVars, api, monitorVars>>

Tick ==
    /\ microtasks = <<>>
    /\ now < MaxTicks * TickMs
    /\ now' = now + TickMs
    /\ UNCHANGED <<store, inflight, fetches, loads, microtasks, execVars, api, monitorVars>>

(***************************************************************************)
(* The cache starts with what earlier sessions left in localStorage.       *)
(***************************************************************************)
StoredEntries ==
    {NoEntry} \cup { [present |-> TRUE, data |-> d, timestamp |-> 0] : d \in Payloads }

CacheInit ==
    /\ InitExecutor
    /\ isOnline
    /\ store \in { st \in [CacheKeys -> StoredEntries] :
                      st["cache_stats"].data \in {Null, StringAa} }
    /\ inflight = [u \in Urls |-> 0]
    /\ fetches = [f \in FetchIds |-> IdleFetch]
    /\ loads = [l \in LoadIds |-> IdleLoad]
    /\ microtasks = <<>>
    /\ now = 0
    /\ api = NoApiCall
    /\ onLine = TRUE
    /\ InitMonitor

CacheNext ==
    \/ \E l \in LoadIds, u \in Urls, k \in LoadKeys : Load(l, u, k, DEFAULT_EXPIRY)
    \/ \E l \in LoadIds, u \in Urls, k \in LoadKeys : Preload(l, u, k)
    \/ \E f \in FetchIds, o \in FetchOutcomes : CacheFetchSettles(f, o)
    \/ \E q \in Quotas, r \in BOOLEAN : RunMicrotask(q, r)
    \/ Tick

CacheSpec == CacheInit /\ [][CacheNext]_vars

(***************************************************************************)
(* The cache API called directly (by pages, and by invalidate and          *)
(* invalidateAll after a write): set, get, remove and clearAll on a store  *)
(* that starts empty, while time passes from one instant of ApiTimes to a  *)
(* later one.  The payloads stored include the falsy ones; the expiries    *)
(* asked for include 0.                                                    *)
(***************************************************************************)
ApiPayloads == {StringAa, Zero, False}

Expiries == {0, 1, DEFAULT_EXPIRY}

ApiTimes == {0, 1, DEFAULT_EXPIRY, TickMs}

ApiCall(op, key) ==
    [NoApiCall EXCEPT !.op = op, !.key = key, !.before = store, !.at = now]

Set(key, data, mode) ==
    LET r == setCall(store, key, data, now, mode)
    IN  /\ store' = r.store
        /\ api' = [ApiCall("set", key) EXCEPT !.data = data, !.mode = mode,
                                              !.threw = r.threw]
        /\ UNCHANGED <<inflight, fetches, loads, microtasks, now, execVars,
                       monitorVars>>

Get(key, expiryMs) ==
    LET r == getCall(store, key, expiryMs, now)
    IN  /\ store' = r.store
        /\ api' = [ApiCall("get", key) EXCEPT !.expiryMs = expiryMs,
                                              !.result = r.result]
        /\ UNCHANGED <<inflight, fetches, loads, microtasks, now, execVars,
                       monitorVars>>

Remove(key) ==
    /\ store' = remove(store, key)
    /\ api' = ApiCall("remove", key)
    /\ UNCHANGED <<inflight, fetches, loads, microtasks, now, execVars,
                   monitorVars>>

ClearAll ==
    /\ store' = clearAll(store)
    /\ api' = ApiCall("clearAll", "")
    /\ UNCHANGED <<inflight, fetches, loads, microtasks, now, execVars,
                   monitorVars>>

Elapse(t) ==
    /\ t > now
    /\ now' = t
    /\ UNCHANGED <<store, inflight, fetches, loads, microtasks, api, execVars,
                   monitorVars>>

ApiNext ==
    \/ \E k \in CacheKeys, d \in ApiPayloads, m \in StorageModes : Set(k, d, m)
    \/ \E k \in CacheKeys, e \in Expiries : Get(k, e)
    \/ \E k \in CacheKeys : Remove(k)
    \/ ClearAll
    \/ \E t \in ApiTimes : Elapse(t)

ApiSpec == Init /\ [][ApiNext]_vars

(***************************************************************************)
(* The quality checks.  checkConnection is called by init, every           *)
(* CHECK_INTERVAL, when the page becomes visible, on a click and by the    *)
(* online listener; detectConnectionQuality by init and every 30 seconds.  *)
(* Checks may overlap: each awaits its own probe.  A probe settles and the *)
(* check that awaits it goes on in the same step.  The model follows       *)
(* ConnectionMonitor and the quality detection of RequestOptimizer apart   *)
(* from the request executor, whose state these steps leave alone.         *)
(***************************************************************************)
Latencies == {50, 200, 400, 600, 1000, 3000}

BaseTimeouts == {0, 1, 3, 15000}

ProbeOutcomes(latencies) ==
    { [ok |-> TRUE, latency |-> l] : l \in latencies }
    \cup { [ok |-> FALSE, latency |-> 0] }

startProbe(ps, owner) ==
    [ps EXCEPT ![FreeProbe(ps)] = [pc |-> "pending", owner |-> owner]]

CheckConnection ==
    /\ IF noConnectivity(onLine)
       THEN /\ monitor' = [monitor EXCEPT !.quality = "offline", !.latency = 0]
            /\ conditions' = [conditions EXCEPT !.monitor = Offline]
            /\ UNCHANGED probes
       ELSE /\ FreeProbe(probes) # 0
            /\ probes' = startProbe(probes, "monitor")
            /\ UNCHANGED <<monitor, conditions>>
    /\ checks' = [checks EXCEPT !.monitor = @ + 1]
    /\ UNCHANGED <<onLine, connectionQuality, asked, execVars, cacheVars>>

DetectConnectionQuality ==
    /\ IF noConnectivity(onLine)
       THEN /\ connectionQuality' = "offline"
            /\ conditions' = [conditions EXCEPT !.executor = Offline]
            /\ UNCHANGED probes
       ELSE /\ FreeProbe(probes) # 0
            /\ probes' = startProbe(probes, "executor")
            /\ UNCHANGED <<connectionQuality, conditions>>
    /\ checks' = [checks EXCEPT !.executor = @ + 1]
    /\ UNCHANGED <<onLine, monitor, asked, execVars, cacheVars>>

ProbeSettles(p, outcome) ==
    /\ probes[p].pc = "pending"
    /\ probes' = [probes EXCEPT ![p] = IdleProbe]
    /\ IF probes[p].owner = "monitor"
       THEN /\ monitor' = IF outcome.ok THEN probeDone(monitor, outcome.latency)
                          ELSE probeFailed(monitor)
            /\ conditions' = [conditions EXCEPT !.monitor =
                                 IF outcome.ok THEN Measured(outcome.latency)
                                 ELSE ProbeFailed]
            /\ UNCHANGED connectionQuality
       ELSE /\ connectionQuality' = IF outcome.ok
                                    THEN connectionQualityOf(outcome.latency)
                                    ELSE detectFailed
            /\ conditions' = [conditions EXCEPT !.executor =
                                 IF outcome.ok THEN Measured(outcome.latency)
                                 ELSE ProbeFailed]
            /\ UNCHANGED monitor
    /\ UNCHANGED <<onLine, checks, asked, execVars, cacheVars>>

(***************************************************************************)
(* The listeners of ConnectionMonitor.setupEventListeners.                 *)
(***************************************************************************)
MonitorOnlineEvent ==
    /\ ~onLine
    /\ onLine' = TRUE
    /\ monitor' = [monitor EXCEPT !.isOnline = TRUE]
    /\ FreeProbe(probes) # 0
    /\ probes' = startProbe(probes, "monitor")
    /\ checks' = [checks EXCEPT !.monitor = @ + 1]
    /\ UNCHANGED <<connectionQuality, conditions, asked, execVars, cacheVars>>

MonitorOfflineEvent ==
    /\ onLine
    /\ onLine' = FALSE
    /\ monitor' = [monitor EXCEPT !.isOnline = FALSE, !.quality = "offline"]
    /\ conditions' = [conditions EXCEPT !.monitor = Offline]
    /\ UNCHANGED <<connectionQuality, probes, checks, asked, execVars, cacheVars>>

(***************************************************************************)
(* A caller asks both objects for their adaptive timeout.                  *)
(***************************************************************************)
AskTimeout(baseTimeout) ==
    /\ asked' = [baseTimeout |-> baseTimeout,
                 quality |-> monitor.quality,
                 monitor |-> ConnectionMonitor_getAdaptiveTimeout(monitor.quality,
                                                                  baseTimeout),
                 connectionQuality |-> connectionQuality,
                 executor |-> getAdaptiveTimeout(connectionQuality)]
    /\ UNCHANGED <<onLine, monitor, connectionQuality, conditions, probes,
                   checks, execVars, cacheVars>>

MonitorInit ==
    /\ InitExecutor
    /\ isOnline
    /\ store = [k \in CacheKeys |-> NoEntry]
    /\ inflight = [u \in Urls |-> 0]
    /\ fetches = [f \in FetchIds |-> IdleFetch]
    /\ loads = [l \in LoadIds |-> IdleLoad]
    /\ microtasks = <<>>
    /\ now = 0
    /\ api = NoApiCall
    /\ onLine \in BOOLEAN
    /\ InitMonitor

MonitorNext ==
    \/ checks.monitor < MaxChecks /\ CheckConnection
    \/ checks.executor < MaxChecks /\ DetectConnectionQuality
    \/ \E p \in ProbeIds, o \in ProbeOutcomes(Latencies) : ProbeSettles(p, o)
    \/ checks.monitor < MaxChecks /\ MonitorOnlineEvent
    \/ MonitorOfflineEvent
    \/ \E b \in BaseTimeouts : AskTimeout(b)

MonitorSpec == MonitorInit /\ [][MonitorNext]_vars

(***************************************************************************)
(* A long run of checks of the monitor, enough to fill the history.        *)
(***************************************************************************)
HistoryLatencies == {50, 900}

HistoryNext ==
    \/ checks.monitor < MaxSamples /\ CheckConnection
    \/ \E p \in ProbeIds, o \in ProbeOutcomes(HistoryLatencies) :
          ProbeSettles(p, o)

HistoryInit == MonitorInit /\ onLine

HistorySpec == HistoryInit /\ [][HistoryNext]_vars

(***************************************************************************)
(* One caller that asks for a long retry loop (options.maxRetries of 4 and *)
(* more), so that the backoff reaches MAX_RETRY_DELAY.                     *)
(***************************************************************************)
RetryOptionsSet ==
    { [method |-> "", body |-> "", hasMaxRetries |-> TRUE, maxRetries |-> n] :
          n \in 4..MaxRetriesGiven }

RetryNext ==
    \/ \E o \in RetryOptionsSet : request(1, "u", o)
    \/ \E raw \in RawOutcomes : FetchSettles(<<"call", 1>>, raw)
    \/ SleepDone(<<"call", 1>>)
    \/ RequestSettles(1)
    \/ OnlineEvent
    \/ OfflineEvent

RetrySpec == Init /\ [][RetryNext]_vars

(***************************************************************************)
(* Vocabulary of the properties.                                           *)
(***************************************************************************)
Terminal == {"resolved", "rejected"}

CallExec(c) == execs[<<"call", c>>]

CallRequestId(c) == generateRequestId(calls[c].url, calls[c].options)

Running(x) == x.pc \in {"fetching", "sleeping", "settled"}

(***************************************************************************)
(* C1.  Calls of request with the same method, URL and serialized body     *)
(* made while the first is in flight share one execution of                *)
(* _executeRequest, and all of them receive the same outcome: pending      *)
(* calls of one identity await the same promise, that promise belongs to a *)
(* running execution of that identity, no two running executions started   *)
(* by request have the same identity, and callers of one promise ended     *)
(* with the same result or the same error.                                 *)
(***************************************************************************)
C1_Deduplicated ==
    /\ \A c, d \in Calls :
          (calls[c].pc = "pending" /\ calls[d].pc = "pending"
              /\ CallRequestId(c) = CallRequestId(d))
          => calls[c].promise = calls[d].promise
    /\ \A c \in Calls :
          calls[c].pc = "pending"
          => /\ calls[c].promise \in Calls
             /\ Running(CallExec(calls[c].promise))
             /\ generateRequestId(CallExec(calls[c].promise).url,
                                  CallExec(calls[c].promise).options)
                    = CallRequestId(c)
    /\ \A c, d \in Calls :
          (c # d /\ Running(CallExec(c)) /\ Running(CallExec(d)))
          => generateRequestId(CallExec(c).url, CallExec(c).options)
                # generateRequestId(CallExec(d).url, CallExec(d).options)
    /\ \A c, d \in Calls :
          (calls[c].pc \in Terminal /\ calls[d].pc \in Terminal
              /\ calls[c].promise = calls[d].promise)
          => /\ calls[c].pc = calls[d].pc
             /\ calls[c].result = calls[d].result
             /\ calls[c].error = calls[d].error

C1_Witness ==
    \E c, d \in Calls :
        /\ c # d
        /\ calls[c].pc = "rejected" /\ calls[d].pc = "rejected"
        /\ calls[c].promise = calls[d].promise
        /\ calls[c].error.status = 500

(***************************************************************************)
(* C2.  A request whose attempts all fail with a retryable error while     *)
(* online makes exactly maxRetries + 1 network attempts before it rejects, *)
(* maxRetries being options.maxRetries when given (0 included) and         *)
(* MAX_RETRIES otherwise.                                                  *)
(***************************************************************************)
C2_Configured(options) ==
    IF options.hasMaxRetries THEN options.maxRetries ELSE MAX_RETRIES

C2_RetryBound ==
    \A e \in ExecIds :
        (execs[e].pc = "settled" /\ execs[e].outcome = "rejected"
            /\ ~dontRetry(execs[e].lastError) /\ execs[e].allOnline)
        => execs[e].netAttempts = C2_Configured(execs[e].options) + 1

(***************************************************************************)
(* C3.  An attempt answered with 400 or 401 ends the request at once: the  *)
(* step that receives the answer rejects the execution without a further   *)
(* fetch, without a backoff wait and without touching the offline queue or *)
(* its stored copy; a first attempt so answered is the only one; and the   *)
(* callers are rejected with that error.                                   *)
(***************************************************************************)
C3_OneAttempt ==
    \A e \in ExecIds :
        (execs[e].pc = "settled" /\ execs[e].lastError.status \in {400, 401})
        => /\ execs[e].outcome = "rejected"
           /\ execs[e].netAttempts = execs[e].attempt + 1
           /\ execs[e].waits = execs[e].attempt

C3_EndsAtOnce ==
    \A e \in ExecIds :
        (execs[e].pc = "fetching" /\ execs'[e] # execs[e]
            /\ execs'[e].lastError.status \in {400, 401})
        => /\ execs'[e].pc = "settled"
           /\ execs'[e].outcome = "rejected"
           /\ execs'[e].netAttempts = execs[e].netAttempts
           /\ execs'[e].waits = execs[e].waits
           /\ offlineQueue' = offlineQueue
           /\ storedQueue' = storedQueue

C3_Surfaced ==
    \A c, d \in Calls :
        (CallExec(c).pc = "settled" /\ CallExec(c).outcome = "rejected"
            /\ CallExec(c)' # CallExec(c)
            /\ calls[d].pc = "pending" /\ calls[d].promise = c)
        => /\ calls'[d].pc = "rejected"
           /\ calls'[d].error = CallExec(c).lastError

C3_FatalNotRetried == []C3_OneAttempt /\ [][C3_EndsAtOnce /\ C3_Surfaced]_vars

C3_Witness ==
    \E c \in Calls :
        /\ CallExec(c).pc = "settled" /\ CallExec(c).outcome = "rejected"
        /\ CallExec(c).lastError.status = 401
        /\ CallExec(c).attempt = 0 /\ CallExec(c).netAttempts = 1

(***************************************************************************)
(* C4.  A call of request with a POST while isOnline is false makes no     *)
(* network attempt, appends exactly one entry (its own) to the offline     *)
(* queue and saves it before the call yields, and resolves with the        *)
(* synthetic result {success, offline, queued}.  C4_OfflineWrite states it *)
(* of every such call; C4_OfflineWriteNotInFlight of the calls that find   *)
(* no request of the same identity in flight, the others sharing the       *)
(* execution in flight and appending nothing.                              *)
(***************************************************************************)
C4_Called(c) ==
    /\ calls[c].pc = "idle" /\ calls'[c].pc = "pending"
    /\ ~isOnline
    /\ calls'[c].options.method = "POST"

C4_Queued(c) ==
    LET x == execs'[<<"call", calls'[c].promise>>]
        n == Len(offlineQueue)
    IN  /\ Len(offlineQueue') = n + 1
        /\ SubSeq(offlineQueue', 1, n) = offlineQueue
        /\ offlineQueue'[n + 1].url = calls'[c].url
        /\ offlineQueue'[n + 1].options = calls'[c].options
        /\ offlineQueue'[n + 1].write = c
        /\ storedQueue' = offlineQueue'
        /\ x.pc = "settled" /\ x.outcome = "resolved"
        /\ x.result = OfflineResult
        /\ x.netAttempts = 0

C4_Resolved ==
    \A c, d \in Calls :
        (CallExec(c).pc = "settled" /\ CallExec(c).result = OfflineResult
            /\ CallExec(c)' # CallExec(c)
            /\ calls[d].pc = "pending" /\ calls[d].promise = c)
        => /\ calls'[d].pc = "resolved"
           /\ calls'[d].result = OfflineResult

C4_OfflineWrite ==
    [][(\A c \in Calls : C4_Called(c) => C4_Queued(c)) /\ C4_Resolved]_vars

C4_Shared(c) ==
    /\ Running(CallExec(calls'[c].promise))
    /\ generateRequestId(CallExec(calls'[c].promise).url,
                         CallExec(calls'[c].promise).options)
          = generateRequestId(calls'[c].url, calls'[c].options)
    /\ UNCHANGED <<offlineQueue, storedQueue, execs>>

C4_OfflineWriteNotInFlight ==
    [][/\ \A c \in Calls :
             C4_Called(c) => IF calls'[c].promise = c
                             THEN C4_Queued(c)
                             ELSE C4_Shared(c)
       /\ C4_Resolved]_vars

C4_Witness ==
    \E c \in Calls :
        /\ ~isOnline
        /\ calls[c].pc = "pending" /\ calls[c].promise = c
        /\ CallExec(c).pc = "settled" /\ CallExec(c).result = OfflineResult
        /\ CallExec(c).attempt = 0
        /\ Len(offlineQueue) = 2
        /\ storedQueue = offlineQueue

(***************************************************************************)
(* C5.  After one drain pass during which nothing was enqueued, the live   *)
(* queue and its stored copy hold exactly the entries whose replay failed, *)
(* in their original relative order.  C5_FailedRemain states it of every   *)
(* such pass; C5_FailedRemainAlone of the passes during which no other     *)
(* pass ran.                                                               *)
(***************************************************************************)
Range(seq) == { seq[i] : i \in DOMAIN seq }

C5_FailedInOrder(p) ==
    LET Failed(entry) == entry \in Range(passes[p].failed)
    IN  SelectSeq(passes[p].atStart, Failed)

C5_FailedRemain ==
    \A p \in PassIds :
        (passes[p].pc = "done" /\ ~passes[p].enqueued)
        => /\ passes[p].endLive = C5_FailedInOrder(p)
           /\ passes[p].endStored = C5_FailedInOrder(p)

C5_FailedRemainAlone ==
    \A p \in PassIds :
        (passes[p].pc = "done" /\ ~passes[p].enqueued /\ ~passes[p].overlap)
        => /\ passes[p].endLive = C5_FailedInOrder(p)
           /\ passes[p].endStored = C5_FailedInOrder(p)

C5_Witness ==
    \E p \in PassIds :
        /\ passes[p].pc = "done" /\ ~passes[p].enqueued /\ ~passes[p].overlap
        /\ Len(passes[p].atStart) = 2
        /\ passes[p].failed = <<passes[p].atStart[2]>>
        /\ passes[p].endLive = <<passes[p].atStart[2]>>

(***************************************************************************)
(* C6.  Every write acknowledged as accepted-deferred and not yet          *)
(* delivered is in the stored copy of the offline queue, in every state.   *)
(***************************************************************************)
C6_DurableUntilDelivered ==
    \A w \in acked \ delivered :
        \E i \in DOMAIN storedQueue : storedQueue[i].write = w

(***************************************************************************)
(* C7.  Whenever the executor is suspended (no continuation is pending),   *)
(* the stored queue equals the live queue.                                 *)
(***************************************************************************)
C7_FlushedAtAwait == ~MicrotaskPending => storedQueue = offlineQueue

(***************************************************************************)
(* C8.  A drain pass replays the entries that were queued when it began,   *)
(* one after another in queue order and each once; an entry enqueued       *)
(* during the pass is not replayed by it.  C8_SnapshotOnly adds that every *)
(* entry enqueued during the pass is in the live queue when the pass ends; *)
(* C8_SnapshotOnlyAlone adds it for the passes during which no other pass  *)
(* ran.                                                                    *)
(***************************************************************************)
IsPrefix(a, b) == Len(a) <= Len(b) /\ a = SubSeq(b, 1, Len(a))

C8_Replays(p) ==
    passes[p].pc \in {"running", "done"}
    => /\ IsPrefix(passes[p].replayed, passes[p].atStart)
       /\ passes[p].pc = "done" => passes[p].replayed = passes[p].atStart
       /\ \A i \in DOMAIN passes[p].replayed :
             passes[p].replayed[i].id < passes[p].firstNewId
       /\ passes[p].pc = "running"
          => /\ Running(execs[<<"pass", p>>])
             /\ execs[<<"pass", p>>].write
                   = passes[p].replayed[Len(passes[p].replayed)].write

C8_NewStay(p) ==
    passes[p].pc = "done"
    => \A id \in passes[p].firstNewId .. (passes[p].endNewId - 1) :
           \E i \in DOMAIN passes[p].endLive : passes[p].endLive[i].id = id

C8_SnapshotOnly ==
    \A p \in PassIds : C8_Replays(p) /\ C8_NewStay(p)

C8_SnapshotOnlyAlone ==
    \A p \in PassIds : C8_Replays(p) /\ (~passes[p].overlap => C8_NewStay(p))

C8_Witness ==
    \E p \in PassIds :
        /\ passes[p].pc = "done" /\ ~passes[p].overlap
        /\ Len(passes[p].atStart) = 2
        /\ passes[p].endNewId > passes[p].firstNewId

(***************************************************************************)
(* C9.  An online event that finds the offline queue non-empty starts a    *)
(* drain pass over it (the live queue and the stored copy are cleared and  *)
(* the first entry is replayed); a replay that fails is appended to the    *)
(* tail of the live queue; and once a pass runs with the live queue empty, *)
(* then unless connectivity is lost or a replay fails and is re-queued,    *)
(* the passes end with the queue empty in memory and in storage.           *)
(***************************************************************************)
PassRunning == \E p \in PassIds : passes[p].pc = "running"

C9_StartsPass ==
    (~isOnline /\ isOnline' /\ offlineQueue # <<>>)
    => \E p \in PassIds :
          /\ passes[p].pc = "idle" /\ passes'[p].pc = "running"
          /\ passes'[p].snapshot = offlineQueue
          /\ passes'[p].replayed = <<offlineQueue[1]>>
          /\ execs'[<<"pass", p>>].pc = "fetching"
          /\ offlineQueue' = <<>>
          /\ storedQueue' = <<>>

C9_Requeued ==
    \A p \in PassIds :
        (execs[<<"pass", p>>].pc = "settled"
            /\ execs[<<"pass", p>>].outcome = "rejected"
            /\ execs'[<<"pass", p>>] # execs[<<"pass", p>>])
        => /\ Len(offlineQueue') > Len(offlineQueue)
           /\ SubSeq(offlineQueue', 1, Len(offlineQueue)) = offlineQueue
           /\ offlineQueue'[Len(offlineQueue) + 1]
                 = passes[p].snapshot[passes[p].idx]

C9_Drained ==
    /\ offlineQueue = <<>>
    /\ storedQueue = <<>>
    /\ ~PassRunning

C9_ReconnectDrains ==
    /\ [][C9_StartsPass /\ C9_Requeued]_vars
    /\ (isOnline /\ PassRunning /\ offlineQueue = <<>>)
          ~> (C9_Drained \/ ~isOnline \/ offlineQueue # <<>>)

C9_Witness ==
    \E p \in PassIds :
        /\ passes[p].pc = "done" /\ ~passes[p].enqueued
        /\ Len(passes[p].atStart) = 2
        /\ passes[p].failed = <<>>
        /\ isOnline
        /\ C9_Drained

(***************************************************************************)
(* C10.  Every call of request ends resolved or rejected, given that       *)
(* fetches settle and timers fire; an execution never enters more backoff  *)
(* waits than its maxRetries nor makes more than maxRetries + 1 attempts.  *)
(***************************************************************************)
C10_Bounded ==
    \A e \in ExecIds :
        /\ execs[e].waits <= execs[e].maxRetries
        /\ execs[e].netAttempts <= execs[e].maxRetries + 1
        /\ execs[e].maxRetries <= MAX_RETRIES

C11_Table == <<1000, 2000, 4000, 8000, 10000, 10000, 10000, 10000>>

C11_Min(a, b) == IF a <= b THEN a ELSE b

C11_Waits ==
    \A e \in ExecIds :
        (execs[e].pc = "fetching" /\ execs'[e].pc = "sleeping")
        => /\ execs'[e].attempt = execs[e].attempt
           /\ execs[e].attempt < execs[e].maxRetries
           /\ execs'[e].delay
                 = C11_Min(RETRY_DELAY * (2 ^ execs[e].attempt), MAX_RETRY_DELAY)
           /\ execs'[e].delay = C11_Table[execs[e].attempt + 1]
           /\ execs'[e].delay <= 10000

C11_ThenNextAttempt ==
    \A e \in ExecIds :
        (execs[e].pc = "sleeping" /\ execs'[e].pc \in {"fetching", "settled"})
        => /\ execs'[e].attempt = execs[e].attempt + 1
           /\ execs'[e].waits = execs[e].waits

C11_AttemptsApart ==
    \A e \in ExecIds :
        (execs[e].pc = "fetching" /\ execs'[e].pc = "fetching")
        => execs'[e] = execs[e]

C11_NoWaitAfterFinal ==
    \A e \in ExecIds :
        (execs[e].pc = "fetching" /\ execs[e].attempt >= execs[e].maxRetries)
        => execs'[e].pc # "sleeping"

C11_Backoff ==
    [][C11_Waits /\ C11_ThenNextAttempt /\ C11_AttemptsApart
          /\ C11_NoWaitAfterFinal]_vars

C11_Witness ==
    \E e \in ExecIds :
        /\ execs[e].pc = "sleeping"
        /\ execs[e].attempt = 4
        /\ execs[e].delay = 10000
        /\ execs[e].waits = 5

(***************************************************************************)
(* C12.  An attempt aborted by its timeout is a retryable failure labeled  *)
(* timeout: the error is the plain "Request timeout" error and never an    *)
(* AbortError; if attempts remain the execution enters the backoff sleep   *)
(* and attempts again after it (a write is queued instead if offline by    *)
(* then); the timeout error rejects the execution, and its callers, only   *)
(* when the attempts are exhausted.                                        *)
(***************************************************************************)
C12_Timeout == [name |-> "Error", status |-> 0, message |-> "Request timeout"]

C12_Labeled ==
    /\ \A e \in ExecIds : execs[e].lastError.name # "AbortError"
    /\ \A c \in Calls : calls[c].error.name # "AbortError"

C12_OnlyWhenExhausted ==
    \A e \in ExecIds :
        (execs[e].pc = "settled" /\ execs[e].outcome = "rejected"
            /\ execs[e].lastError = C12_Timeout)
        => /\ execs[e].attempt = execs[e].maxRetries + 1
           /\ execs[e].netAttempts >= 1

C12_TimedOut(e) ==
    /\ execs[e].pc = "fetching"
    /\ execs'[e].pc \in {"sleeping", "settled"}
    /\ execs'[e].outcome # "resolved"
    /\ execs'[e].lastError = C12_Timeout

C12_Retried ==
    \A e \in ExecIds :
        C12_TimedOut(e)
        => IF execs[e].attempt < execs[e].maxRetries
           THEN /\ execs'[e].pc = "sleeping"
                /\ execs'[e].outcome = "none"
           ELSE /\ execs'[e].pc = "settled"
                /\ execs'[e].outcome = "rejected"

C12_AttemptsAgain ==
    \A e \in ExecIds :
        (execs[e].pc = "sleeping" /\ execs[e].lastError = C12_Timeout
            /\ execs'[e] # execs[e] /\ execs'[e].pc # "unused")
        => \/ /\ execs'[e].pc = "fetching"
              /\ execs'[e].netAttempts = execs[e].netAttempts + 1
           \/ /\ execs'[e].pc = "settled"
              /\ execs'[e].result = OfflineResult
              /\ execs[e].options.method = "POST" /\ ~isOnline

C12_Surfaces ==
    \A c, d \in Calls :
        (CallExec(c).pc = "settled" /\ CallExec(c).outcome = "rejected"
            /\ CallExec(c).lastError = C12_Timeout
            /\ CallExec(c)' # CallExec(c)
            /\ calls[d].pc = "pending" /\ calls[d].promise = c)
        => /\ calls'[d].pc = "rejected"
           /\ calls'[d].error = C12_Timeout

C12_TimeoutRetried ==
    /\ [](C12_Labeled /\ C12_OnlyWhenExhausted)
    /\ [][C12_Retried /\ C12_AttemptsAgain /\ C12_Surfaces]_vars

C12_Witness ==
    \E c \in Calls :
        /\ calls[c].pc = "rejected"
        /\ calls[c].error = C12_Timeout
        /\ \E d \in Calls :
              /\ CallExec(d).pc = "fetching"
              /\ CallExec(d).lastError = C12_Timeout
              /\ CallExec(d).netAttempts = 2

(***************************************************************************)
(* C13.  A read (a request that is not a POST) submitted while offline is  *)
(* never appended to the offline queue and fails at once: when its first   *)
(* attempt, made offline, fails, the request is rejected without a backoff *)
(* sleep.                                                                  *)
(***************************************************************************)
C13_NeverQueued ==
    /\ \A i \in DOMAIN offlineQueue : offlineQueue[i].options.method = "POST"
    /\ \A i \in DOMAIN storedQueue : storedQueue[i].options.method = "POST"

C13_SubmittedOffline(x) ==
    /\ x.options.method # "POST"
    /\ x.attempt = 0 /\ x.netAttempts = 1 /\ ~x.allOnline

C13_OfflineReadFailsAtOnce ==
    /\ C13_NeverQueued
    /\ \A c \in Calls :
          C13_SubmittedOffline(CallExec(c))
          => /\ CallExec(c).pc # "sleeping"
             /\ CallExec(c).waits = 0

(***************************************************************************)
(* C14.  In every reachable state activeRequests is between 0 and          *)
(* CONCURRENT_REQUESTS, and it is the number of queued requests whose      *)
(* _executeRequest is running, however enqueues, processQueue calls,       *)
(* completions and online events interleave.                               *)
(***************************************************************************)
C14_RunningTasks == { t \in TaskIds : tasks[t].pc = "running" }

C14_ActiveBounded ==
    /\ activeRequests >= 0
    /\ activeRequests <= CONCURRENT_REQUESTS
    /\ activeRequests = Cardinality(C14_RunningTasks)
    /\ \A t \in TaskIds :
          Running(execs[<<"task", t>>]) <=> t \in C14_RunningTasks

C14_Witness ==
    /\ activeRequests = CONCURRENT_REQUESTS
    /\ Len(queue) >= 1
    /\ \E t \in TaskIds : tasks[t].pc = "rejected"

(***************************************************************************)
(* C15.  Waiting requests are started in the order they were queued (the   *)
(* request started by a step is the head of the queue, and no request      *)
(* still waiting was queued before one already started); when a running    *)
(* request completes, resolved or rejected, while requests wait, the head  *)
(* of the queue is started in the same step; and every waiting request is  *)
(* eventually started, given that running requests terminate.              *)
(***************************************************************************)
C15_Waiting == { t \in TaskIds : tasks[t].pc = "waiting" }

C15_QueueInOrder ==
    /\ \A i \in DOMAIN queue : queue[i] \in C15_Waiting
    /\ \A t \in C15_Waiting : \E i \in DOMAIN queue : queue[i] = t
    /\ \A i, j \in DOMAIN queue : i < j => queue[i] < queue[j]
    /\ \A t \in TaskIds, w \in C15_Waiting :
          tasks[t].pc \in {"running", "resolved", "rejected"} => t < w

C15_StartsHead ==
    \A t \in TaskIds :
        (tasks[t].pc = "waiting" /\ tasks'[t].pc # "waiting")
        => /\ t = Head(queue)
           /\ queue' = Tail(queue)
           /\ tasks'[t].pc = "running"
           /\ execs'[<<"task", t>>].pc = "fetching"

C15_PullsNext ==
    \A t \in TaskIds :
        (tasks[t].pc = "running" /\ tasks'[t].pc \in Terminal /\ queue # <<>>)
        => /\ tasks'[Head(queue)].pc = "running"
           /\ queue' = Tail(queue)
           /\ activeRequests' = activeRequests

C15_Fifo ==
    /\ []C15_QueueInOrder
    /\ [][C15_StartsHead /\ C15_PullsNext]_vars
    /\ \A t \in TaskIds : (tasks[t].pc = "waiting") ~> (tasks[t].pc # "waiting")

C15_Witness ==
    /\ tasks[1].pc = "rejected"
    /\ tasks[2].pc = "running"
    /\ tasks[3].pc = "running"
    /\ queue = <<4>>

(***************************************************************************)
(* C16.  For a call of fetchWithCache whose fetch gave a payload that is   *)
(* not null: if a cache entry existed when it was called, onData was       *)
(* called with the cached payload, and called again (with the fresh        *)
(* payload, fromCache false) exactly if the fingerprint of the fresh       *)
(* payload differs from that of the cached one, so once for unchanged data *)
(* and twice for changed data; if no entry existed, onData was called with *)
(* the fresh payload.                                                      *)
(***************************************************************************)
LoadDone(l) == loads[l].kind = "load" /\ loads[l].pc = "done"

C16_FromCache(l) ==
    [data |-> loads[l].entryAtCall.data, fromCache |-> TRUE,
     isExpired |-> loads[l].onData[1].isExpired, error |-> FALSE]

C16_FromNetwork(l) ==
    [data |-> loads[l].fresh, fromCache |-> FALSE, isExpired |-> FALSE,
     error |-> FALSE]

C16_ChangedOnly ==
    \A l \in LoadIds :
        (LoadDone(l) /\ loads[l].gotResult = "fulfilled" /\ loads[l].fresh # Null)
        => IF loads[l].entryAtCall.present
           THEN IF hash(loads[l].fresh) = hash(loads[l].entryAtCall.data)
                THEN /\ Len(loads[l].onData) = 1
                     /\ loads[l].onData = <<C16_FromCache(l)>>
                ELSE /\ Len(loads[l].onData) = 2
                     /\ loads[l].onData = <<C16_FromCache(l), C16_FromNetwork(l)>>
           ELSE loads[l].onData = <<C16_FromNetwork(l)>>

(***************************************************************************)
(* C17.  When the fetch of a call of fetchWithCache fails, onData was      *)
(* called with (null, {error}) exactly once if no cached data had been     *)
(* handed to onData, and not called again if cached data had been; and the *)
(* call ends normally: its continuation runs to its end, so no call is     *)
(* left waiting on a settled promise.                                      *)
(***************************************************************************)
C17_ErrorCall ==
    [data |-> Null, fromCache |-> FALSE, isExpired |-> TRUE, error |-> TRUE]

C17_CacheShown(l) == loads[l].onData # <<>> /\ loads[l].onData[1].fromCache

C17_FailureReported ==
    /\ \A l \in LoadIds :
          (LoadDone(l) /\ loads[l].gotResult = "rejected")
          => IF C17_CacheShown(l)
             THEN Len(loads[l].onData) = 1
             ELSE loads[l].onData = <<C17_ErrorCall>>
    /\ \A l \in LoadIds :
          (microtasks = <<>> /\ loads[l].pc = "awaiting")
          => fetches[loads[l].promise].pc = "pending"
             \/ loads[l].kind = "preload"

C17_Witness ==
    \E l, m \in LoadIds :
        /\ LoadDone(l) /\ loads[l].gotResult = "rejected"
        /\ loads[l].onData = <<C17_ErrorCall>>
        /\ LoadDone(m) /\ loads[m].gotResult = "rejected"
        /\ C17_CacheShown(m) /\ Len(loads[m].onData) = 1

(***************************************************************************)
(* C18.  Every call of fetchWithCache calls onData at most twice, at most  *)
(* once with cached data and at most once after the fetch, and at least    *)
(* once when the cache held an entry or the fetch gave a payload that is   *)
(* not null.                                                               *)
(***************************************************************************)
C18_Count(l, fromCache) ==
    Cardinality({ i \in DOMAIN loads[l].onData :
                     loads[l].onData[i].fromCache = fromCache })

C18_OnceOrTwice ==
    \A l \in LoadIds :
        /\ Len(loads[l].onData) <= 2
        /\ C18_Count(l, TRUE) <= 1
        /\ C18_Count(l, FALSE) <= 1
        /\ (LoadDone(l)
              /\ (loads[l].entryAtCall.present
                    \/ (loads[l].gotResult = "fulfilled" /\ loads[l].fresh # Null)))
           => Len(loads[l].onData) >= 1

(***************************************************************************)
(* C19.  At most one fetch per URL is pending at any time, and a call of   *)
(* fetchWithCache or _preloadFetch made while a fetch of its URL is        *)
(* pending issues no fetch of its own.                                     *)
(***************************************************************************)
C19_OneFetchPerUrl ==
    /\ \A u \in Urls : Cardinality(PendingFetches(fetches, u)) <= 1
    /\ \A l \in LoadIds : loads[l].shared => ~loads[l].issued

(***************************************************************************)
(* C20.  When the fetch of a call of fetchWithCache gives a payload that   *)
(* is not null, the step that receives it leaves the cache entry of        *)
(* cacheKey holding that payload and the current time, whether or not the  *)
(* fingerprint changed.  C20_AlwaysStored states it of every such step;    *)
(* C20_StoredUnlessWriteFails allows the step to leave the cache keys      *)
(* cleared instead, which is what set does when the write fails twice.     *)
(***************************************************************************)
C20_Received(l) ==
    /\ loads[l].kind = "load"
    /\ loads[l].pc = "awaiting" /\ loads'[l].pc = "done"
    /\ loads'[l].gotResult = "fulfilled"
    /\ loads'[l].fresh # Null

C20_Entry(l) ==
    [present |-> TRUE, data |-> loads'[l].fresh, timestamp |-> now]

C20_AlwaysStored ==
    [][\A l \in LoadIds :
          C20_Received(l) => store'[loads[l].cacheKey] = C20_Entry(l)]_vars

C20_StoredUnlessWriteFails ==
    [][\A l \in LoadIds :
          C20_Received(l)
          => \/ store'[loads[l].cacheKey] = C20_Entry(l)
             \/ \A k \in CacheKeys : ~store'[k].present]_vars

C20_Witness ==
    \E l \in LoadIds :
        /\ LoadDone(l) /\ loads[l].gotResult = "fulfilled"
        /\ loads[l].fresh # Null
        /\ hash(loads[l].fresh) = loads[l].cachedHash
        /\ Len(loads[l].onData) = 1
        /\ now > 0
        /\ store[loads[l].cacheKey]
              = [present |-> TRUE, data |-> loads[l].fresh, timestamp |-> now]

(***************************************************************************)
(* C21.  If a cache entry is present when fetchWithCache is called, the    *)
(* call itself (before it first suspends) calls onData with the cached     *)
(* payload and fromCache true, so that this call is the first onData call  *)
(* of the load and every network or error call comes after it.             *)
(***************************************************************************)
C21_Called(l) == loads[l].kind = "load" /\ loads[l].pc # "idle"

C21_CacheFirst ==
    \A l \in LoadIds :
        C21_Called(l) /\ loads[l].entryAtCall.present =>
            /\ loads[l].onData # <<>>
            /\ loads[l].onData[1].fromCache
            /\ loads[l].onData[1].data = loads[l].entryAtCall.data
            /\ \A i \in 2..Len(loads[l].onData) : ~loads[l].onData[i].fromCache

(***************************************************************************)
(* C22.  Round trip: a get of a key that holds an entry written by set     *)
(* (falsy payloads included) returns a result, with the payload that was   *)
(* stored, and with isExpired false when the age of the entry is within    *)
(* the expiry asked for.                                                   *)
(***************************************************************************)
C22_Age == api.at - api.before[api.key].timestamp

C22_RoundTrip ==
    api.op = "get" /\ api.before[api.key].present =>
        /\ api.result.found
        /\ api.result.data = api.before[api.key].data
        /\ C22_Age <= api.expiryMs => ~api.result.isExpired

(***************************************************************************)
(* C23.  A call of set never throws.  When the write succeeds only the key *)
(* changes; when it fails every cache entry is cleared and the write is    *)
(* retried once: the key then holds the new entry if the retry succeeds    *)
(* and no entry if it fails too.                                           *)
(***************************************************************************)
C23_NewEntry == [present |-> TRUE, data |-> api.data, timestamp |-> api.at]

C23_SetNeverThrows ==
    api.op = "set" =>
        /\ ~api.threw
        /\ store[api.key] \in {C23_NewEntry, NoEntry}
        /\ \A k \in CacheKeys \ {api.key} : store[k] \in {api.before[k], NoEntry}

(***************************************************************************)
(* C24.  For every entry present and every expiryMs >= 0 (0 included), get *)
(* returns age = now - timestamp and isExpired = (age > expiryMs).         *)
(***************************************************************************)
C24_ExpiryExact ==
    api.op = "get" /\ api.before[api.key].present =>
        /\ api.result.found
        /\ api.result.age = api.at - api.before[api.key].timestamp
        /\ api.result.isExpired = (api.result.age > api.expiryMs)

(***************************************************************************)
(* C25.  A get leaves the store as it was, and an entry whose age exceeds  *)
(* the expiry asked for is still returned by get, with isExpired true.     *)
(***************************************************************************)
C25_StoreKept == api.op = "get" => store = api.before

C25_ExpiredReadable ==
    /\ C25_StoreKept
    /\ api.op = "get" /\ api.before[api.key].present
       /\ api.at - api.before[api.key].timestamp > api.expiryMs =>
           api.result.found /\ api.result.isExpired

(***************************************************************************)
(* C26.  When the tier of the executor and the tier of the monitor were    *)
(* derived from the same condition (no connectivity, the same latency, or  *)
(* a failed probe), the timeout the executor uses equals the monitor's     *)
(* adaptive timeout for INITIAL_TIMEOUT, and it is at most MAX_TIMEOUT.    *)
(***************************************************************************)
C26_SameCondition ==
    conditions.monitor = conditions.executor /\ conditions.monitor.kind # "none"

C26_TimeoutsAgree ==
    C26_SameCondition =>
        /\ getAdaptiveTimeout(connectionQuality)
              = ConnectionMonitor_getAdaptiveTimeout(monitor.quality, INITIAL_TIMEOUT)
        /\ getAdaptiveTimeout(connectionQuality) <= MAX_TIMEOUT

(***************************************************************************)
(* C27.  For the base timeout asked for, the monitor's timeout at its tier *)
(* is at most its timeout at every worse tier and at least its timeout at  *)
(* every better tier (excellent, good, fair, poor, offline), and so is the *)
(* executor's timeout over its tiers good, fair, poor, offline.            *)
(***************************************************************************)
C27_Tiers == <<"excellent", "good", "fair", "poor", "offline">>

C27_ExecutorTiers == <<"good", "fair", "poor", "offline">>

C27_MonitorTimeout(q) ==
    ConnectionMonitor_getAdaptiveTimeout(q, asked.baseTimeout)

C27_MonitorOrdered ==
    \A i, j \in DOMAIN C27_Tiers :
        i <= j =>
            /\ C27_MonitorTimeout(C27_Tiers[i]) <= C27_MonitorTimeout(C27_Tiers[j])
            /\ C27_Tiers[i] = asked.quality =>
                  asked.monitor <= C27_MonitorTimeout(C27_Tiers[j])
            /\ C27_Tiers[j] = asked.quality =>
                  C27_MonitorTimeout(C27_Tiers[i]) <= asked.monitor

C27_ExecutorOrdered ==
    \A i, j \in DOMAIN C27_ExecutorTiers :
        i <= j =>
            /\ getAdaptiveTimeout(C27_ExecutorTiers[i])
                  <= getAdaptiveTimeout(C27_ExecutorTiers[j])
            /\ C27_ExecutorTiers[i] = asked.connectionQuality =>
                  asked.executor <= getAdaptiveTimeout(C27_ExecutorTiers[j])
            /\ C27_ExecutorTiers[j] = asked.connectionQuality =>
                  getAdaptiveTimeout(C27_ExecutorTiers[i]) <= asked.executor

C27_Monotonic == asked # NoQuery => C27_MonitorOrdered /\ C27_ExecutorOrdered

C27_Witness ==
    /\ asked.baseTimeout = INITIAL_TIMEOUT
    /\ asked.quality = "fair"
    /\ asked.connectionQuality = "poor"

(***************************************************************************)
(* C28.  A check that starts while the platform reports no connectivity    *)
(* sets the tier to offline and starts no probe, in the monitor and in the *)
(* executor; and the step in which the platform goes offline leaves the    *)
(* monitor's tier offline.                                                 *)
(***************************************************************************)
C28_OfflineCheck ==
    /\ ~onLine /\ ~onLine' /\ checks'.monitor # checks.monitor =>
          monitor'.quality = "offline" /\ probes' = probes
    /\ ~onLine /\ ~onLine' /\ checks'.executor # checks.executor =>
          connectionQuality' = "offline" /\ probes' = probes

C28_OfflineEvent ==
    onLine /\ ~onLine' => monitor'.quality = "offline" /\ ~monitor'.isOnline

C28_OfflineWithoutProbe == [][C28_OfflineCheck /\ C28_OfflineEvent]_vars

C28_Witness ==
    /\ ~onLine
    /\ checks.monitor > 0 /\ checks.executor > 0
    /\ monitor.quality = "offline" /\ conditions.monitor = Offline
    /\ connectionQuality = "offline" /\ conditions.executor = Offline
    /\ \A p \in ProbeIds : probes[p].pc = "idle"

(***************************************************************************)
(* C29.  A probe that fails sets the tier of its check to poor; and a step *)
(* that turns a tier into offline is not the end of a probe: the platform  *)
(* reports no connectivity in it.                                          *)
(***************************************************************************)
C29_Failed(owner) ==
    /\ \E p \in ProbeIds : /\ probes[p].pc = "pending"
                           /\ probes[p].owner = owner
                           /\ probes'[p].pc = "idle"
    /\ conditions'[owner] = ProbeFailed

C29_FailureIsPoor ==
    /\ C29_Failed("monitor") => monitor'.quality = "poor"
    /\ C29_Failed("executor") => connectionQuality' = "poor"

C29_OfflineFromPlatform ==
    /\ monitor'.quality = "offline" /\ monitor.quality # "offline" =>
          ~onLine' /\ probes' = probes
    /\ connectionQuality' = "offline" /\ connectionQuality # "offline" =>
          ~onLine' /\ probes' = probes

C29_ProbeFailureIsPoor == [][C29_FailureIsPoor /\ C29_OfflineFromPlatform]_vars

C29_Witness ==
    /\ conditions.monitor = ProbeFailed /\ monitor.quality = "poor"
    /\ conditions.executor = ProbeFailed /\ connectionQuality = "poor"

(***************************************************************************)
(* C30.  The history never holds more than HISTORY_SIZE samples; a probe   *)
(* that succeeds appends its sample, and when the history is full the      *)
(* oldest sample is the one dropped; the tier after the probe is the tier  *)
(* of that probe's latency, whatever the history holds.                    *)
(***************************************************************************)
C30_Bounded == Len(monitor.history) <= HISTORY_SIZE

C30_Sample == monitor'.history[Len(monitor'.history)]

C30_EvictsOldest ==
    monitor'.lastCheck # monitor.lastCheck =>
        /\ monitor'.history # <<>>
        /\ C30_Sample.timestamp = monitor'.lastCheck
        /\ C30_Sample.latency = monitor'.latency
        /\ monitor'.history =
              IF Len(monitor.history) < HISTORY_SIZE
              THEN Append(monitor.history, C30_Sample)
              ELSE Append(Tail(monitor.history), C30_Sample)
        /\ monitor'.quality = qualityOf(monitor'.latency)
        /\ C30_Sample.quality = monitor'.quality

C30_BoundedHistory == []C30_Bounded /\ [][C30_EvictsOldest]_vars

C30_Witness ==
    /\ Len(monitor.history) = HISTORY_SIZE
    /\ monitor.lastCheck > HISTORY_SIZE
    /\ monitor.history[1].timestamp = monitor.lastCheck - HISTORY_SIZE + 1

(***************************************************************************)
(* The executor with a storage that may refuse writes: localStorage.setItem *)
(* in saveOfflineQueue throws (quota, private mode) from StorageFails on   *)
(* and works again from StorageRecovers on.  The catch block of            *)
(* saveOfflineQueue logs the error and returns.                            *)
(***************************************************************************)
StorageFails ==
    /\ storageOk
    /\ storageOk' = FALSE
    /\ UNCHANGED <<isOnline, offlineQueue, storedQueue, inflightRequests,
                   execs, calls, passes, nextEntryId, reloads, acked, delivered>>
    /\ UNCHANGED <<queueVars, cacheVars, monitorVars>>

StorageRecovers ==
    /\ ~storageOk
    /\ storageOk' = TRUE
    /\ UNCHANGED <<isOnline, offlineQueue, storedQueue, inflightRequests,
                   execs, calls, passes, nextEntryId, reloads, acked, delivered>>
    /\ UNCHANGED <<queueVars, cacheVars, monitorVars>>

StorageNext ==
    \/ \E c \in Calls, u \in Urls, o \in OptionsSet : request(c, u, o)
    \/ \E e \in ExecIds, raw \in RawOutcomes : FetchSettles(e, raw)
    \/ \E e \in ExecIds : SleepDone(e)
    \/ \E c \in Calls : RequestSettles(c)
    \/ \E p \in PassIds : DrainContinue(p)
    \/ OnlineEvent
    \/ OfflineEvent
    \/ StorageFails
    \/ StorageRecovers

StorageSpec == Init /\ [][StorageNext]_vars

(***************************************************************************)
(* C31.  A failure of the durable storage while the offline queue is saved *)
(* never reaches the caller: the offline write still resolves with the     *)
(* accepted-deferred result and its entry is in the in-memory queue; and   *)
(* the executor rejects to its caller only with a fatal client error or    *)
(* after the retries are exhausted.                                        *)
(***************************************************************************)
C31_Exhausted(x) ==
    /\ x.attempt = x.maxRetries + 1
    /\ x.netAttempts = x.maxRetries + 1
    /\ x.lastError # NoError

C31_Rejects ==
    \A e \in ExecIds :
        (execs[e].pc = "settled" /\ execs[e].outcome = "rejected")
        => (dontRetry(execs[e].lastError) \/ C31_Exhausted(execs[e]))

C31_Kept ==
    \A e \in ExecIds :
        (execs[e].pc \notin {"settled", "fetching"} /\ execs'[e].pc = "settled"
            /\ routeOffline(isOnline', execs'[e].options)
            /\ execs'[e].attempt <= execs'[e].maxRetries)
        => /\ execs'[e].outcome = "resolved"
           /\ execs'[e].result = OfflineResult
           /\ Len(offlineQueue') > 0
           /\ offlineQueue'[Len(offlineQueue')].write = execs'[e].write
           /\ offlineQueue'[Len(offlineQueue')].id = nextEntryId

C31_Surfaced ==
    \A c, d \in Calls :
        (CallExec(c).pc = "settled" /\ CallExec(c)' # CallExec(c)
            /\ calls[d].pc = "pending" /\ calls[d].promise = c)
        => IF CallExec(c).outcome = "rejected"
           THEN calls'[d].pc = "rejected" /\ calls'[d].error = CallExec(c).lastError
           ELSE calls'[d].pc = "resolved" /\ calls'[d].result = CallExec(c).result

C31_StorageFailureContained ==
    []C31_Rejects /\ [][C31_Kept /\ C31_Surfaced]_vars

C31_Witness ==
    \E c \in Calls :
        /\ ~storageOk
        /\ calls[c].pc = "resolved" /\ calls[c].result = OfflineResult
        /\ \E i \in DOMAIN offlineQueue : offlineQueue[i].write = c
        /\ \A i \in DOMAIN storedQueue : storedQueue[i].write # c

(***************************************************************************)
(* preload(webAppUrl, pageType): one _preloadFetch per resource of the     *)
(* page type, in the order of the if statements, and Promise.allSettled of *)
(* the promises they return.  A resource is the url fetched (given by its  *)
(* action; the year and month of the admin url are those of the day) and   *)
(* the cache key stored.  The extractors give the payload (an object or an *)
(* array) or null.                                                         *)
(***************************************************************************)
PendingTrips == [url |-> "getPendingTrips", cacheKey |-> "cache_pending_trips"]
Records == [url |-> "getRecords", cacheKey |-> "cache_records"]
AdminData == [url |-> "getAdminData", cacheKey |-> "cache_admin_data"]
Vehicles == [url |-> "getVehicles", cacheKey |-> "cache_vehicles"]

Resources == {PendingTrips, Records, AdminData, Vehicles}
PreloadUrls == { r.url : r \in Resources }
PreloadKeys == { r.cacheKey : r \in Resources }
PageTypes == {"driver", "nurse", "admin", "other"}

resourcesOf_NurseWithoutVehicles(pageType) ==
    (IF pageType \in {"driver", "nurse"} THEN <<PendingTrips>> ELSE <<>>)
    \o (IF pageType = "nurse" THEN <<Records>> ELSE <<>>)
    \o (IF pageType = "admin" THEN <<AdminData>> ELSE <<>>)

resourcesOf(pageType) ==
    (IF pageType \in {"driver", "nurse"} THEN <<PendingTrips>> ELSE <<>>)
    \o (IF pageType = "nurse" THEN <<Records>> ELSE <<>>)
    \o (IF pageType = "admin" THEN <<AdminData>> ELSE <<>>)
    \o (IF pageType = "nurse" THEN <<Vehicles>> ELSE <<>>)

RECURSIVE preloadAll(_, _)
preloadAll(S, rs) ==
    IF rs = <<>> THEN S
    ELSE preloadAll(preloadFetch(S, FreeLoad(S.loads), Head(rs).url,
                                 Head(rs).cacheKey),
                    Tail(rs))

preload(S, pageType) == preloadAll(S, resourcesOf(pageType))

(***************************************************************************)
(* The promises of preload.  The promise _preloadFetch returns ends with   *)
(* .catch(() => {}): it is fulfilled whether the fetch failed, the then    *)
(* callback threw or not.  Promise.allSettled is pending until every       *)
(* member is settled and is then fulfilled.                                *)
(***************************************************************************)
thenCatch(threw) == "fulfilled"

allSettled(outcomes) ==
    IF \A i \in DOMAIN outcomes : outcomes[i] # "pending"
    THEN "fulfilled"
    ELSE "pending"

(***************************************************************************)
(* The then callback of _preloadFetch, run with storage in mode: store the *)
(* extracted data if it is truthy.  threw: the promise the callback hangs  *)
(* on was rejected, or set threw.                                          *)
(***************************************************************************)
preloadThen(S, l, t, mode) ==
    LET L == S.loads[l]
        F == S.fetches[L.promise]
        stores == F.pc = "fulfilled" /\ truthy(F.result)
        r == setCall(S.store, L.cacheKey, F.result, t, mode)
    IN  [S |-> [S EXCEPT !.loads = [@ EXCEPT ![l].pc = "done",
                                             ![l].gotResult = F.pc,
                                             ![l].fresh = F.result],
                         !.store = IF stores THEN r.store ELSE @],
         threw |-> F.pc = "rejected" \/ (stores /\ r.threw)]

(***************************************************************************)
(* The pages that preload.  api holds the calls of preload made so far     *)
(* (page type, the _preloadFetch calls of each, the in-flight map it       *)
(* found) and the state of the promise of every _preloadFetch call.        *)
(***************************************************************************)
NoPreloads ==
    [op |-> "preload", calls |-> <<>>,
     outcomes |-> [l \in LoadIds |-> "pending"]]

IdleLoads(ls) == { l \in LoadIds : ls[l].pc = "idle" }

IdleFetches(fs) == { f \in FetchIds : fs[f].pc = "idle" }

PreloadPage(pageType) ==
    LET rs == resourcesOf(pageType)
        new == { i \in DOMAIN rs : inflight[rs[i].url] = 0 }
        S == preload(CacheState, pageType)
    IN  /\ microtasks = <<>>
        /\ Len(api.calls) < MaxPreloads
        /\ Cardinality(IdleLoads(loads)) >= Len(rs)
        /\ Cardinality(IdleFetches(fetches)) >= Cardinality(new)
        /\ setCacheState(S)
        /\ api' = [api EXCEPT !.calls = Append(@,
                      [pageType |-> pageType,
                       members |-> IdleLoads(loads) \ IdleLoads(S.loads),
                       found |-> inflight])]
        /\ UNCHANGED <<now, execVars, monitorVars>>

PreloadOutcomes ==
    { [pc |-> "fulfilled", result |-> r] : r \in {StringAa, StringBB, Null} }
    \cup { [pc |-> "rejected", result |-> Null] }

PreloadMicrotask(mode) ==
    /\ microtasks # <<>>
    /\ LET l == Head(microtasks)
           r == preloadThen([CacheState EXCEPT !.microtasks = Tail(@)], l, now,
                            mode)
       IN  /\ setCacheState(r.S)
           /\ api' = [api EXCEPT !.outcomes[l] = thenCatch(r.threw)]
    /\ UNCHANGED <<now, execVars, monitorVars>>

PreloadInit ==
    /\ InitExecutor
    /\ isOnline
    /\ store = [k \in PreloadKeys |-> NoEntry]
    /\ inflight = [u \in PreloadUrls |-> 0]
    /\ fetches = [f \in FetchIds |-> IdleFetch]
    /\ loads = [l \in LoadIds |-> IdleLoad]
    /\ microtasks = <<>>
    /\ now = 0
    /\ api = NoPreloads
    /\ onLine = TRUE
    /\ InitMonitor

PreloadNext ==
    \/ \E t \in PageTypes : PreloadPage(t)
    \/ \E f \in FetchIds, o \in PreloadOutcomes : CacheFetchSettles(f, o)
    \/ \E m \in StorageModes : PreloadMicrotask(m)

PreloadSpec == PreloadInit /\ [][PreloadNext]_vars

(***************************************************************************)
(* C32.  preload(webAppUrl, pageType) does the deduplicated fetch and the  *)
(* store step, with no data callback, for exactly the resources of the     *)
(* page type (driver: pending trips; nurse: pending trips, records,        *)
(* vehicles; admin: admin data; any other page type: none); it stores a    *)
(* result only when its extracted payload is present; and the promise it   *)
(* returns never rejects.                                                  *)
(***************************************************************************)
C32_Expected(pageType) ==
    CASE pageType = "driver" -> {PendingTrips}
      [] pageType = "nurse" -> {PendingTrips, Records, Vehicles}
      [] pageType = "admin" -> {AdminData}
      [] OTHER -> {}

C32_Promise(call) == allSettled([l \in call.members |-> api.outcomes[l]])

C32_Called ==
    Len(api'.calls) > Len(api.calls)
    => LET call == api'.calls[Len(api'.calls)]
           want == C32_Expected(call.pageType)
       IN  /\ { [url |-> loads'[l].url, cacheKey |-> loads'[l].cacheKey] :
                    l \in call.members } = want
           /\ Cardinality(call.members) = Cardinality(want)
           /\ \A l \in LoadIds \ call.members : loads'[l] = loads[l]
           /\ \A l \in call.members :
                 /\ loads[l].pc = "idle"
                 /\ loads'[l].kind = "preload"
                 /\ loads'[l].issued = (inflight[loads'[l].url] = 0)
                 /\ inflight'[loads'[l].url] = loads'[l].promise
                 /\ inflight[loads'[l].url] # 0
                       => loads'[l].promise = inflight[loads'[l].url]
           /\ \A f \in FetchIds :
                 fetches'[f] # fetches[f]
                 => /\ fetches'[f].pc = "pending"
                    /\ \E r \in want : /\ fetches'[f].url = r.url
                                       /\ inflight[r.url] = 0
                                       /\ inflight'[r.url] = f
           /\ \A u \in PreloadUrls :
                 (\A r \in want : r.url # u) => inflight'[u] = inflight[u]
           /\ store' = store

C32_Stored ==
    \A k \in PreloadKeys :
        (store'[k] # store[k] /\ store'[k].present)
        => /\ microtasks # <<>>
           /\ LET l == Head(microtasks)
              IN  /\ loads[l].cacheKey = k
                  /\ fetches[loads[l].promise].pc = "fulfilled"
                  /\ fetches[loads[l].promise].result # Null
                  /\ store'[k].data = fetches[loads[l].promise].result

C32_NoCallback ==
    \A l \in LoadIds : loads[l].kind = "preload" => loads[l].onData = <<>>

C32_NeverRejects ==
    /\ \A l \in LoadIds : api.outcomes[l] \in {"pending", "fulfilled"}
    /\ \A i \in DOMAIN api.calls :
          /\ C32_Promise(api.calls[i]) \in {"pending", "fulfilled"}
          /\ (\A l \in api.calls[i].members : loads[l].pc = "done")
                => C32_Promise(api.calls[i]) = "fulfilled"

C32_Preload ==
    [](C32_NoCallback /\ C32_NeverRejects) /\ [][C32_Called /\ C32_Stored]_vars

C32_Witness ==
    \E i \in DOMAIN api.calls :
        /\ api.calls[i].pageType = "nurse"
        /\ C32_Promise(api.calls[i]) = "fulfilled"
        /\ \E l, m, n \in api.calls[i].members :
              /\ loads[l].gotResult = "rejected"
              /\ loads[m].gotResult = "fulfilled" /\ loads[m].fresh = Null
              /\ loads[n].gotResult = "fulfilled" /\ loads[n].fresh # Null
              /\ store[loads[n].cacheKey].data = loads[n].fresh
        /\ \E j \in DOMAIN api.calls :
              /\ j > i
              /\ api.calls[j].pageType = "driver"
              /\ \E l \in api.calls[j].members : ~loads[l].issued

(***************************************************************************)
(* C33.  The in-flight map of the executor holds an entry for an identity  *)
(* exactly while an execution for that identity is unsettled: the entry is *)
(* removed once the execution settles, on success and on failure alike, so *)
(* that the next request with that identity starts a new execution rather  *)
(* than receiving the old outcome.  C33_WhileUnsettled states it of the    *)
(* settling of the execution; C33_UntilContinuation of the continuation of *)
(* request() that runs after the execution has settled.                    *)
(***************************************************************************)
C33_ExecId(c) == generateRequestId(CallExec(c).url, CallExec(c).options)

C33_Unsettled(x) == x.pc \in {"fetching", "sleeping"}

C33_ExactlyUnsettled ==
    /\ \A id \in DOMAIN inflightRequests :
          /\ inflightRequests[id] \in Calls
          /\ C33_Unsettled(CallExec(inflightRequests[id]))
          /\ C33_ExecId(inflightRequests[id]) = id
    /\ \A c \in Calls :
          C33_Unsettled(CallExec(c))
          => /\ inflightHas(inflightRequests, C33_ExecId(c))
             /\ inflightRequests[C33_ExecId(c)] = c

C33_NewAfterSettled ==
    \A d \in Calls :
        (calls[d].pc = "idle" /\ calls'[d].pc = "pending")
        => \/ calls'[d].promise = d /\ CallExec(d).pc = "unused"
                 /\ CallExec(d)'.pc # "unused"
           \/ C33_Unsettled(CallExec(calls'[d].promise))

C33_WhileUnsettled == []C33_ExactlyUnsettled /\ [][C33_NewAfterSettled]_vars

C33_Held ==
    /\ \A id \in DOMAIN inflightRequests :
          /\ inflightRequests[id] \in Calls
          /\ Running(CallExec(inflightRequests[id]))
          /\ C33_ExecId(inflightRequests[id]) = id
    /\ \A c \in Calls :
          Running(CallExec(c))
          => /\ inflightHas(inflightRequests, C33_ExecId(c))
             /\ inflightRequests[C33_ExecId(c)] = c

C33_Removed ==
    \A c \in Calls :
        (CallExec(c).pc = "settled" /\ CallExec(c)' # CallExec(c))
        => /\ ~inflightHas(inflightRequests', C33_ExecId(c))
           /\ CallExec(c)'.pc = "unused"

C33_NewAfterContinuation ==
    \A d \in Calls :
        (calls[d].pc = "idle" /\ calls'[d].pc = "pending")
        => IF inflightHas(inflightRequests, CallRequestId(d)')
           THEN /\ calls'[d].promise = inflightRequests[CallRequestId(d)']
                /\ Running(CallExec(calls'[d].promise))
                /\ UNCHANGED execs
           ELSE /\ calls'[d].promise = d
                /\ CallExec(d).pc = "unused"
                /\ CallExec(d)'.pc # "unused"
                /\ \A c \in Calls : CallExec(c).pc = "settled"
                      => C33_ExecId(c) # CallRequestId(d)'

C33_UntilContinuation ==
    []C33_Held /\ [][C33_Removed /\ C33_NewAfterContinuation]_vars

C33_Witness ==
    \E c, d \in Calls :
        /\ c < d
        /\ calls[c].pc = "rejected"
        /\ calls[d].pc = "pending" /\ calls[d].promise = d
        /\ C33_ExecId(d) = "GET:u:"
        /\ CallExec(d).pc = "fetching"
        /\ DOMAIN inflightRequests = {"GET:u:"}
        /\ inflightRequests["GET:u:"] = d

(***************************************************************************)
(* C34.  In the monitor, whenever isOnline is false the tier is offline:   *)
(* a probe that was started online and completes after an offline event    *)
(* does not overwrite the offline tier.  C34_OfflineTierKept: a step that  *)
(* starts with isOnline false and the tier offline, and leaves isOnline    *)
(* false, leaves the tier offline.                                         *)
(***************************************************************************)
C34_OfflineTierKept ==
    [][(~monitor.isOnline /\ monitor.quality = "offline" /\ ~monitor'.isOnline)
          => monitor'.quality = "offline"]_vars

(***************************************************************************)
(* C35.  The per-URL in-flight entry of the loader exists only while the   *)
(* fetch it refers to is unsettled: once a fetch started by fetchWithCache *)
(* or by preload has settled its entry is removed, so that a later         *)
(* fetchWithCache for the URL issues a new fetch instead of reusing the    *)
(* settled result.  C35_NewFetch: a call of fetchWithCache made when no    *)
(* continuation is pending awaits a fetch that is unsettled.               *)
(***************************************************************************)
C35_NewFetch ==
    [][\A l \in LoadIds :
          (microtasks = <<>> /\ loads[l].pc = "idle" /\ loads'[l].pc # "idle"
              /\ loads'[l].kind = "load")
          => fetches'[loads'[l].promise].pc = "pending"]_vars

(***************************************************************************)
(* C36.  Without a reload, under any interleaving of online and offline    *)
(* events, new offline writes and overlapping drain passes, every write    *)
(* that was accepted as deferred is at all times in exactly one place: in  *)
(* the live queue, in the part of one running pass's snapshot that is not  *)
(* processed yet, being replayed by exactly one pass, or delivered.  No    *)
(* write is lost and none is replayed by two passes at once.               *)
(***************************************************************************)
C36_InLive(w) ==
    Cardinality({ i \in DOMAIN offlineQueue : offlineQueue[i].write = w })

C36_InRemainder(w) ==
    Cardinality({ pi \in PassIds \X (1..MaxCalls) :
                    /\ passes[pi[1]].pc = "running"
                    /\ pi[2] \in DOMAIN passes[pi[1]].snapshot
                    /\ pi[2] > passes[pi[1]].idx
                    /\ passes[pi[1]].snapshot[pi[2]].write = w })

C36_ReplayedBy(w) ==
    { p \in PassIds :
        /\ passes[p].pc = "running"
        /\ passes[p].snapshot[passes[p].idx].write = w
        /\ ~(execs[<<"pass", p>>].pc = "settled"
                /\ execs[<<"pass", p>>].outcome = "resolved") }

C36_Delivered(w) == IF w \in delivered THEN 1 ELSE 0

C36_ExactlyOnePlace ==
    /\ \A w \in acked :
          C36_InLive(w) + C36_InRemainder(w) + Cardinality(C36_ReplayedBy(w))
             + C36_Delivered(w) = 1
    /\ \A p \in PassIds : passes[p].pc = "running" => Len(passes[p].snapshot) <= MaxCalls

C36_Witness ==
    /\ acked = {1, 2}
    /\ C36_ReplayedBy(1) # {} /\ C36_ReplayedBy(2) # {}
    /\ C36_ReplayedBy(1) # C36_ReplayedBy(2)
    /\ \A p \in PassIds : execs[<<"pass", p>>].pc = "fetching"

(***************************************************************************)
(* C37.  A queued entry is removed from the queue only by a replay that    *)
(* returns successfully.  A replay that fails, with a fatal client error   *)
(* (400 or 401) too, is re-queued on every pass with its retries counter   *)
(* unchanged at 0: nothing bounds the number of passes that replay the     *)
(* entry, and the queue does not drain while the entry exists.  An entry   *)
(* is held while it is in the live queue or in the snapshot of a running   *)
(* pass, at or after the position of the pass.                             *)
(***************************************************************************)
C37_Held(id) ==
    \/ \E i \in DOMAIN offlineQueue : offlineQueue[i].id = id
    \/ \E p \in PassIds :
          /\ passes[p].pc = "running"
          /\ \E i \in DOMAIN passes[p].snapshot :
                i >= passes[p].idx /\ passes[p].snapshot[i].id = id

C37_RemovedBySuccess ==
    \A id \in 1..nextEntryId :
        (C37_Held(id) /\ ~C37_Held(id)')
        => \E p \in PassIds :
              /\ passes[p].pc = "running"
              /\ passes[p].snapshot[passes[p].idx].id = id
              /\ execs[<<"pass", p>>].pc = "settled"
              /\ execs[<<"pass", p>>].outcome = "resolved"
              /\ execs'[<<"pass", p>>] # execs[<<"pass", p>>]

C37_FailedRequeued ==
    \A p \in PassIds :
        (passes[p].pc = "running"
            /\ execs[<<"pass", p>>].pc = "settled"
            /\ execs[<<"pass", p>>].outcome = "rejected"
            /\ execs'[<<"pass", p>>] # execs[<<"pass", p>>])
        => /\ passes[p].snapshot[passes[p].idx].retries = 0
           /\ \E i \in DOMAIN offlineQueue' :
                 offlineQueue'[i] = passes[p].snapshot[passes[p].idx]
           /\ (passes'[p].pc = "done" => offlineQueue' # <<>>)

C37_RetriesZero ==
    /\ \A i \in DOMAIN offlineQueue : offlineQueue[i].retries = 0
    /\ \A p \in PassIds : \A i \in DOMAIN passes[p].snapshot :
          passes[p].snapshot[i].retries = 0

C37_RequeuedForever ==
    []C37_RetriesZero /\ [][C37_RemovedBySuccess /\ C37_FailedRequeued]_vars

C37_Witness ==
    \E p, q \in PassIds :
        /\ passes[p].pc = "done" /\ passes[q].pc = "running"
        /\ passes[q].snapshot[passes[q].idx] \in Range(passes[p].failed)
        /\ passes[q].snapshot[passes[q].idx].retries = 0
        /\ execs[<<"pass", q>>].pc = "settled"
        /\ execs[<<"pass", q>>].outcome = "rejected"
        /\ execs[<<"pass", q>>].lastError.status \in {400, 401}

(***************************************************************************)
(* C38.  The offline check is made before every attempt, not only the      *)
(* first.  A POST that was submitted online, failed transiently and finds  *)
(* the executor offline at its next attempt is appended to the offline     *)
(* queue and resolved with the accepted-deferred result; and an entry that *)
(* a drain pass replays while offline is queued again as a new entry and   *)
(* counts as a successful replay.                                          *)
(***************************************************************************)
C38_Queued(x, y, q) ==
    /\ y.pc = "settled" /\ y.outcome = "resolved" /\ y.result = OfflineResult
    /\ y.netAttempts = x.netAttempts
    /\ offlineQueue'
          = Append(q, [id |-> nextEntryId, url |-> y.url, options |-> y.options,
                       retries |-> 0, write |-> y.write])
    /\ nextEntryId' = nextEntryId + 1

C38_NextAttempt ==
    \A e \in ExecIds :
        (execs[e].pc = "sleeping" /\ execs'[e] # execs[e] /\ ~isOnline
            /\ execs[e].options.method = "POST")
        => /\ execs[e].netAttempts > 0
           /\ execs'[e].url = execs[e].url /\ execs'[e].write = execs[e].write
           /\ C38_Queued(execs[e], execs'[e], offlineQueue)

C38_ReplayOffline ==
    \A p \in PassIds :
        (passes[p].pc = "running" /\ passes'[p].idx = passes[p].idx + 1
            /\ ~isOnline)
        => /\ execs'[<<"pass", p>>].url = passes[p].snapshot[passes'[p].idx].url
           /\ execs'[<<"pass", p>>].write = passes[p].snapshot[passes'[p].idx].write
           /\ C38_Queued(UnusedExec, execs'[<<"pass", p>>],
                         IF execs[<<"pass", p>>].outcome = "rejected"
                         THEN Append(offlineQueue,
                                     passes[p].snapshot[passes[p].idx])
                         ELSE offlineQueue)
           /\ nextEntryId # passes[p].snapshot[passes'[p].idx].id

C38_ReplayCounted ==
    \A p \in PassIds :
        (passes[p].pc = "running"
            /\ execs[<<"pass", p>>].pc = "settled"
            /\ execs[<<"pass", p>>].result = OfflineResult
            /\ execs'[<<"pass", p>>] # execs[<<"pass", p>>])
        => /\ passes'[p].failed = passes[p].failed
           /\ \A i \in DOMAIN offlineQueue' :
                 offlineQueue'[i].id # passes[p].snapshot[passes[p].idx].id

C38_CheckedEveryAttempt ==
    [][C38_NextAttempt /\ C38_ReplayOffline /\ C38_ReplayCounted]_vars

C38_Witness ==
    \E c \in Calls, p \in PassIds :
        /\ ~isOnline
        /\ CallExec(c).pc = "settled" /\ CallExec(c).result = OfflineResult
        /\ CallExec(c).netAttempts = 1 /\ CallExec(c).waits = 1
        /\ passes[p].pc = "done" /\ passes[p].failed = <<>>
        /\ Len(passes[p].snapshot) = 1
        /\ \E i \in DOMAIN offlineQueue :
              /\ offlineQueue[i].write = passes[p].snapshot[1].write
              /\ offlineQueue[i].id > passes[p].snapshot[1].id

(***************************************************************************)
(* localStorage as the cache shares it with the rest of the application:   *)
(* next to the cache keys it holds the offline queue of the executor under *)
(* OFFLINE_QUEUE_KEY and the session and the language of SESSION_CONFIG.   *)
(* An item that is not a cache entry is given by its text.  The cache is   *)
(* called with the keys of DataCache.KEYS.                                 *)
(***************************************************************************)
OFFLINE_QUEUE_KEY == "offline_request_queue"
SESSION_KEY == "userSession"
LANGUAGE_KEY == "appLanguage"

OtherKeys == {OFFLINE_QUEUE_KEY, SESSION_KEY, LANGUAGE_KEY}

StorageKeys == CacheKeys \cup OtherKeys

Item(text) == [present |-> TRUE, data |-> text, timestamp |-> 0]

invalidate(st, keys) == [k \in DOMAIN st |-> IF k \in keys THEN NoEntry ELSE st[k]]

invalidateAll(st) == clearAll(st)

Invalidate(keys) ==
    /\ store' = invalidate(store, keys)
    /\ api' = ApiCall("invalidate", "")
    /\ UNCHANGED <<inflight, fetches, loads, microtasks, now, execVars,
                   monitorVars>>

InvalidateAll ==
    /\ store' = invalidateAll(store)
    /\ api' = ApiCall("invalidateAll", "")
    /\ UNCHANGED <<inflight, fetches, loads, microtasks, now, execVars,
                   monitorVars>>

SharedInit ==
    /\ InitExecutor
    /\ isOnline
    /\ store \in { st \in [StorageKeys -> StoredEntries \cup {Item(StringBB)}] :
                      /\ st[OFFLINE_QUEUE_KEY] \in {NoEntry, Item(StringBB)}
                      /\ st[SESSION_KEY] = Item(StringBB)
                      /\ st[LANGUAGE_KEY] \in {NoEntry, Item(StringAa)}
                      /\ \A k \in CacheKeys : st[k] \in {NoEntry, Item(StringAa)} }
    /\ inflight = [u \in Urls |-> 0]
    /\ fetches = [f \in FetchIds |-> IdleFetch]
    /\ loads = [l \in LoadIds |-> IdleLoad]
    /\ microtasks = <<>>
    /\ now = 0
    /\ api = NoApiCall
    /\ onLine = TRUE
    /\ InitMonitor

SharedNext ==
    \/ \E k \in CacheKeys, d \in ApiPayloads, m \in StorageModes : Set(k, d, m)
    \/ \E k \in CacheKeys, e \in Expiries : Get(k, e)
    \/ \E k \in CacheKeys : Remove(k)
    \/ ClearAll
    \/ \E ks \in SUBSET CacheKeys : Invalidate(ks)
    \/ InvalidateAll

SharedSpec == SharedInit /\ [][SharedNext]_vars

(***************************************************************************)
(* C39.  clearAll, also when set calls it after a failed write and when    *)
(* invalidateAll calls it, removes exactly the keys that start with        *)
(* "cache_" and leaves every other key of the storage as it was; the       *)
(* stored offline queue is never removed or changed by an operation of the *)
(* cache.                                                                  *)
(***************************************************************************)
C39_Cleared ==
    [k \in DOMAIN store |->
        IF k \in {"cache_records", "cache_stats"} THEN NoEntry ELSE store[k]]

C39_ClearAllCalled ==
    \/ api'.op \in {"clearAll", "invalidateAll"}
    \/ api'.op = "set" /\ api'.mode \in {"retry", "fail"}

C39_ClearsCacheKeys ==
    (api' # api /\ C39_ClearAllCalled)
    => \A k \in DOMAIN store :
          \/ store'[k] = C39_Cleared[k]
          \/ /\ api'.op = "set" /\ api'.mode = "retry" /\ k = api'.key
             /\ store'[k] = [present |-> TRUE, data |-> api'.data, timestamp |-> now]

C39_OthersUntouched ==
    /\ DOMAIN store' = DOMAIN store
    /\ \A k \in OtherKeys : store'[k] = store[k]

C39_ClearAllFrame == [][C39_ClearsCacheKeys /\ C39_OthersUntouched]_vars

C39_Witness ==
    /\ api.op = "set" /\ api.mode = "retry"
    /\ \E k \in CacheKeys : k # api.key /\ api.before[k].present /\ ~store[k].present
    /\ store[api.key].present
    /\ store[OFFLINE_QUEUE_KEY] = Item(StringBB)
    /\ store[SESSION_KEY] = Item(StringBB)
    /\ store[LANGUAGE_KEY] = Item(StringAa)

(***************************************************************************)
(* The page is reloaded and then left alone: after init nobody submits a   *)
(* request and the platform keeps its connectivity.  What the event loop   *)
(* owes still happens: fetches settle, timers fire, continuations run.     *)
(***************************************************************************)
LeftAloneNext ==
    \/ reloads = 0 /\ \E c \in Calls, u \in Urls, o \in OptionsSet : request(c, u, o)
    \/ \E e \in ExecIds, raw \in RawOutcomes : FetchSettles(e, raw)
    \/ \E e \in ExecIds : SleepDone(e)
    \/ \E c \in Calls : RequestSettles(c)
    \/ \E p \in PassIds : DrainContinue(p)
    \/ reloads = 0 /\ OnlineEvent
    \/ reloads = 0 /\ OfflineEvent
    \/ Reload

LeftAloneSpec == Init /\ [][LeftAloneNext]_vars /\ Fairness

(***************************************************************************)
(* C40.  Deferred writes that were stored before a reload are eventually   *)
(* replayed after init while the platform is already online: init with a   *)
(* non-empty stored queue leads to a drain pass, with no need of a later   *)
(* transition from offline to online.  C40_ReplayedAfterInit: a page that  *)
(* init leaves online with the stored entries in its queue comes to run a  *)
(* pass.                                                                   *)
(***************************************************************************)
C40_Loaded ==
    /\ reloads > 0
    /\ isOnline
    /\ offlineQueue # <<>>
    /\ offlineQueue = storedQueue

C40_ReplayedAfterInit == C40_Loaded ~> PassRunning

=============================================================================
